---- MODULE Spec2Model ----
(***************************************************************************)
(* Parameter synchronisation of the Manta50 ESC panel                      *)
(* (src/dronecan_gui_tool/panels/manta50_esc.py, class Manta50Panel).      *)
(*                                                                         *)
(* A text is a sequence of one-character strings, so that split, join,     *)
(* float(), int() and str() are computed character by character; a         *)
(* character beyond ASCII is the string of its code point, "U+00A0".       *)
(* A whole number of any size is the sequence of its decimal digits.       *)
(***************************************************************************)
EXTENDS Integers, Sequences, FiniteSets, TLC

\* ------------------------------------------------------------------ bounds
\* how many times the operator presses "Fetch All" in one run
MaxFetches == 2
\* how many "Set" buttons the operator presses in one run
MaxSets == 1
\* how many informational messages arrive in one run of SpecStore
MaxMsgs == 3
\* how many informational messages arrive in one run of SpecSession
MaxSessionMsgs == 1
\* how many informational messages arrive in one run of SpecDecode
MaxDecodeMsgs == 1
\* how many responses are lost in one run of SpecFetch
MaxStray == 1
\* how many further messages follow fetch-complete in one run of SpecFetch
MaxExtra == 2
\* how many responses arrive after their window in one run of SpecLate
MaxLate == 1
\* how many log messages arrive in one run of SpecEnum
MaxEnumMsgs == 1
\* how many messages arrive in one run of SpecLog
MaxLogMsgs == 2

\* ------------------------------------------------------------ Python text
\* A character of ASCII is the string that holds it; a character beyond
\* ASCII is the string of its code point, "U+00A0".

\* the digits '0'..'9'
Digits == {"0", "1", "2", "3", "4", "5", "6", "7", "8", "9"}

DigitVal(c) ==
    CASE c = "0" -> 0 [] c = "1" -> 1 [] c = "2" -> 2 [] c = "3" -> 3
      [] c = "4" -> 4 [] c = "5" -> 5 [] c = "6" -> 6 [] c = "7" -> 7
      [] c = "8" -> 8 [] c = "9" -> 9

DigitChar(d) ==
    CASE d = 0 -> "0" [] d = 1 -> "1" [] d = 2 -> "2" [] d = 3 -> "3"
      [] d = 4 -> "4" [] d = 5 -> "5" [] d = 6 -> "6" [] d = 7 -> "7"
      [] d = 8 -> "8" [] d = 9 -> "9"

\* the white space beyond ASCII: the characters str.isspace() holds for
UnicodeSpace ==
    {"U+0085", "U+00A0", "U+1680", "U+2000", "U+2001", "U+2002",
     "U+2003", "U+2004", "U+2005", "U+2006", "U+2007", "U+2008",
     "U+2009", "U+200A", "U+2028", "U+2029", "U+202F", "U+205F",
     "U+3000"}
\* the decimal digits beyond ASCII (category Nd), one row for each script,
\* the digit of value v at position v + 1
UnicodeDigitRows ==
    <<
       <<"U+0660", "U+0661", "U+0662", "U+0663", "U+0664",
         "U+0665", "U+0666", "U+0667", "U+0668", "U+0669">>,
       <<"U+06F0", "U+06F1", "U+06F2", "U+06F3", "U+06F4",
         "U+06F5", "U+06F6", "U+06F7", "U+06F8", "U+06F9">>,
       <<"U+07C0", "U+07C1", "U+07C2", "U+07C3", "U+07C4",
         "U+07C5", "U+07C6", "U+07C7", "U+07C8", "U+07C9">>,
       <<"U+0966", "U+0967", "U+0968", "U+0969", "U+096A",
         "U+096B", "U+096C", "U+096D", "U+096E", "U+096F">>,
       <<"U+09E6", "U+09E7", "U+09E8", "U+09E9", "U+09EA",
         "U+09EB", "U+09EC", "U+09ED", "U+09EE", "U+09EF">>,
       <<"U+0A66", "U+0A67", "U+0A68", "U+0A69", "U+0A6A",
         "U+0A6B", "U+0A6C", "U+0A6D", "U+0A6E", "U+0A6F">>,
       <<"U+0AE6", "U+0AE7", "U+0AE8", "U+0AE9", "U+0AEA",
         "U+0AEB", "U+0AEC", "U+0AED", "U+0AEE", "U+0AEF">>,
       <<"U+0B66", "U+0B67", "U+0B68", "U+0B69", "U+0B6A",
         "U+0B6B", "U+0B6C", "U+0B6D", "U+0B6E", "U+0B6F">>,
       <<"U+0BE6", "U+0BE7", "U+0BE8", "U+0BE9", "U+0BEA",
         "U+0BEB", "U+0BEC", "U+0BED", "U+0BEE", "U+0BEF">>,
       <<"U+0C66", "U+0C67", "U+0C68", "U+0C69", "U+0C6A",
         "U+0C6B", "U+0C6C", "U+0C6D", "U+0C6E", "U+0C6F">>,
       <<"U+0CE6", "U+0CE7", "U+0CE8", "U+0CE9", "U+0CEA",
         "U+0CEB", "U+0CEC", "U+0CED", "U+0CEE", "U+0CEF">>,
       <<"U+0D66", "U+0D67", "U+0D68", "U+0D69", "U+0D6A",
         "U+0D6B", "U+0D6C", "U+0D6D", "U+0D6E", "U+0D6F">>,
       <<"U+0DE6", "U+0DE7", "U+0DE8", "U+0DE9", "U+0DEA",
         "U+0DEB", "U+0DEC", "U+0DED", "U+0DEE", "U+0DEF">>,
       <<"U+0E50", "U+0E51", "U+0E52", "U+0E53", "U+0E54",
         "U+0E55", "U+0E56", "U+0E57", "U+0E58", "U+0E59">>,
       <<"U+0ED0", "U+0ED1", "U+0ED2", "U+0ED3", "U+0ED4",
         "U+0ED5", "U+0ED6", "U+0ED7", "U+0ED8", "U+0ED9">>,
       <<"U+0F20", "U+0F21", "U+0F22", "U+0F23", "U+0F24",
         "U+0F25", "U+0F26", "U+0F27", "U+0F28", "U+0F29">>,
       <<"U+1040", "U+1041", "U+1042", "U+1043", "U+1044",
         "U+1045", "U+1046", "U+1047", "U+1048", "U+1049">>,
       <<"U+1090", "U+1091", "U+1092", "U+1093", "U+1094",
         "U+1095", "U+1096", "U+1097", "U+1098", "U+1099">>,
       <<"U+17E0", "U+17E1", "U+17E2", "U+17E3", "U+17E4",
         "U+17E5", "U+17E6", "U+17E7", "U+17E8", "U+17E9">>,
       <<"U+1810", "U+1811", "U+1812", "U+1813", "U+1814",
         "U+1815", "U+1816", "U+1817", "U+1818", "U+1819">>,
       <<"U+1946", "U+1947", "U+1948", "U+1949", "U+194A",
         "U+194B", "U+194C", "U+194D", "U+194E", "U+194F">>,
       <<"U+19D0", "U+19D1", "U+19D2", "U+19D3", "U+19D4",
         "U+19D5", "U+19D6", "U+19D7", "U+19D8", "U+19D9">>,
       <<"U+1A80", "U+1A81", "U+1A82", "U+1A83", "U+1A84",
         "U+1A85", "U+1A86", "U+1A87", "U+1A88", "U+1A89">>,
       <<"U+1A90", "U+1A91", "U+1A92", "U+1A93", "U+1A94",
         "U+1A95", "U+1A96", "U+1A97", "U+1A98", "U+1A99">>,
       <<"U+1B50", "U+1B51", "U+1B52", "U+1B53", "U+1B54",
         "U+1B55", "U+1B56", "U+1B57", "U+1B58", "U+1B59">>,
       <<"U+1BB0", "U+1BB1", "U+1BB2", "U+1BB3", "U+1BB4",
         "U+1BB5", "U+1BB6", "U+1BB7", "U+1BB8", "U+1BB9">>,
       <<"U+1C40", "U+1C41", "U+1C42", "U+1C43", "U+1C44",
         "U+1C45", "U+1C46", "U+1C47", "U+1C48", "U+1C49">>,
       <<"U+1C50", "U+1C51", "U+1C52", "U+1C53", "U+1C54",
         "U+1C55", "U+1C56", "U+1C57", "U+1C58", "U+1C59">>,
       <<"U+A620", "U+A621", "U+A622", "U+A623", "U+A624",
         "U+A625", "U+A626", "U+A627", "U+A628", "U+A629">>,
       <<"U+A8D0", "U+A8D1", "U+A8D2", "U+A8D3", "U+A8D4",
         "U+A8D5", "U+A8D6", "U+A8D7", "U+A8D8", "U+A8D9">>,
       <<"U+A900", "U+A901", "U+A902", "U+A903", "U+A904",
         "U+A905", "U+A906", "U+A907", "U+A908", "U+A909">>,
       <<"U+A9D0", "U+A9D1", "U+A9D2", "U+A9D3", "U+A9D4",
         "U+A9D5", "U+A9D6", "U+A9D7", "U+A9D8", "U+A9D9">>,
       <<"U+A9F0", "U+A9F1", "U+A9F2", "U+A9F3", "U+A9F4",
         "U+A9F5", "U+A9F6", "U+A9F7", "U+A9F8", "U+A9F9">>,
       <<"U+AA50", "U+AA51", "U+AA52", "U+AA53", "U+AA54",
         "U+AA55", "U+AA56", "U+AA57", "U+AA58", "U+AA59">>,
       <<"U+ABF0", "U+ABF1", "U+ABF2", "U+ABF3", "U+ABF4",
         "U+ABF5", "U+ABF6", "U+ABF7", "U+ABF8", "U+ABF9">>,
       <<"U+FF10", "U+FF11", "U+FF12", "U+FF13", "U+FF14",
         "U+FF15", "U+FF16", "U+FF17", "U+FF18", "U+FF19">>,
       <<"U+104A0", "U+104A1", "U+104A2", "U+104A3", "U+104A4",
         "U+104A5", "U+104A6", "U+104A7", "U+104A8", "U+104A9">>,
       <<"U+10D30", "U+10D31", "U+10D32", "U+10D33", "U+10D34",
         "U+10D35", "U+10D36", "U+10D37", "U+10D38", "U+10D39">>,
       <<"U+11066", "U+11067", "U+11068", "U+11069", "U+1106A",
         "U+1106B", "U+1106C", "U+1106D", "U+1106E", "U+1106F">>,
       <<"U+110F0", "U+110F1", "U+110F2", "U+110F3", "U+110F4",
         "U+110F5", "U+110F6", "U+110F7", "U+110F8", "U+110F9">>,
       <<"U+11136", "U+11137", "U+11138", "U+11139", "U+1113A",
         "U+1113B", "U+1113C", "U+1113D", "U+1113E", "U+1113F">>,
       <<"U+111D0", "U+111D1", "U+111D2", "U+111D3", "U+111D4",
         "U+111D5", "U+111D6", "U+111D7", "U+111D8", "U+111D9">>,
       <<"U+112F0", "U+112F1", "U+112F2", "U+112F3", "U+112F4",
         "U+112F5", "U+112F6", "U+112F7", "U+112F8", "U+112F9">>,
       <<"U+11450", "U+11451", "U+11452", "U+11453", "U+11454",
         "U+11455", "U+11456", "U+11457", "U+11458", "U+11459">>,
       <<"U+114D0", "U+114D1", "U+114D2", "U+114D3", "U+114D4",
         "U+114D5", "U+114D6", "U+114D7", "U+114D8", "U+114D9">>,
       <<"U+11650", "U+11651", "U+11652", "U+11653", "U+11654",
         "U+11655", "U+11656", "U+11657", "U+11658", "U+11659">>,
       <<"U+116C0", "U+116C1", "U+116C2", "U+116C3", "U+116C4",
         "U+116C5", "U+116C6", "U+116C7", "U+116C8", "U+116C9">>,
       <<"U+11730", "U+11731", "U+11732", "U+11733", "U+11734",
         "U+11735", "U+11736", "U+11737", "U+11738", "U+11739">>,
       <<"U+118E0", "U+118E1", "U+118E2", "U+118E3", "U+118E4",
         "U+118E5", "U+118E6", "U+118E7", "U+118E8", "U+118E9">>,
       <<"U+11950", "U+11951", "U+11952", "U+11953", "U+11954",
         "U+11955", "U+11956", "U+11957", "U+11958", "U+11959">>,
       <<"U+11C50", "U+11C51", "U+11C52", "U+11C53", "U+11C54",
         "U+11C55", "U+11C56", "U+11C57", "U+11C58", "U+11C59">>,
       <<"U+11D50", "U+11D51", "U+11D52", "U+11D53", "U+11D54",
         "U+11D55", "U+11D56", "U+11D57", "U+11D58", "U+11D59">>,
       <<"U+11DA0", "U+11DA1", "U+11DA2", "U+11DA3", "U+11DA4",
         "U+11DA5", "U+11DA6", "U+11DA7", "U+11DA8", "U+11DA9">>,
       <<"U+16A60", "U+16A61", "U+16A62", "U+16A63", "U+16A64",
         "U+16A65", "U+16A66", "U+16A67", "U+16A68", "U+16A69">>,
       <<"U+16AC0", "U+16AC1", "U+16AC2", "U+16AC3", "U+16AC4",
         "U+16AC5", "U+16AC6", "U+16AC7", "U+16AC8", "U+16AC9">>,
       <<"U+16B50", "U+16B51", "U+16B52", "U+16B53", "U+16B54",
         "U+16B55", "U+16B56", "U+16B57", "U+16B58", "U+16B59">>,
       <<"U+1D7CE", "U+1D7CF", "U+1D7D0", "U+1D7D1", "U+1D7D2",
         "U+1D7D3", "U+1D7D4", "U+1D7D5", "U+1D7D6", "U+1D7D7">>,
       <<"U+1D7D8", "U+1D7D9", "U+1D7DA", "U+1D7DB", "U+1D7DC",
         "U+1D7DD", "U+1D7DE", "U+1D7DF", "U+1D7E0", "U+1D7E1">>,
       <<"U+1D7E2", "U+1D7E3", "U+1D7E4", "U+1D7E5", "U+1D7E6",
         "U+1D7E7", "U+1D7E8", "U+1D7E9", "U+1D7EA", "U+1D7EB">>,
       <<"U+1D7EC", "U+1D7ED", "U+1D7EE", "U+1D7EF", "U+1D7F0",
         "U+1D7F1", "U+1D7F2", "U+1D7F3", "U+1D7F4", "U+1D7F5">>,
       <<"U+1D7F6", "U+1D7F7", "U+1D7F8", "U+1D7F9", "U+1D7FA",
         "U+1D7FB", "U+1D7FC", "U+1D7FD", "U+1D7FE", "U+1D7FF">>,
       <<"U+1E140", "U+1E141", "U+1E142", "U+1E143", "U+1E144",
         "U+1E145", "U+1E146", "U+1E147", "U+1E148", "U+1E149">>,
       <<"U+1E2F0", "U+1E2F1", "U+1E2F2", "U+1E2F3", "U+1E2F4",
         "U+1E2F5", "U+1E2F6", "U+1E2F7", "U+1E2F8", "U+1E2F9">>,
       <<"U+1E950", "U+1E951", "U+1E952", "U+1E953", "U+1E954",
         "U+1E955", "U+1E956", "U+1E957", "U+1E958", "U+1E959">>,
       <<"U+1FBF0", "U+1FBF1", "U+1FBF2", "U+1FBF3", "U+1FBF4",
         "U+1FBF5", "U+1FBF6", "U+1FBF7", "U+1FBF8", "U+1FBF9">> >>
UnicodeDigits ==
    {UnicodeDigitRows[r][k] : r \in 1..Len(UnicodeDigitRows), k \in 1..10}

\* \d of a pattern, and what int() and float() read as a digit: every
\* character of category Nd
DecimalDigits == Digits \cup UnicodeDigits

\* the value of a decimal digit
DecimalVal(c) ==
    IF c \in Digits THEN DigitVal(c)
    ELSE LET r == CHOOSE q \in 1..Len(UnicodeDigitRows) :
                      \E k \in 1..10 : UnicodeDigitRows[q][k] = c
         IN  (CHOOSE k \in 1..10 : UnicodeDigitRows[r][k] = c) - 1

\* str.split(" "): cut at every single space, empty pieces kept
RECURSIVE Split(_)
Split(s) ==
    IF \A i \in 1..Len(s) : s[i] # " "
    THEN <<s>>
    ELSE LET i == CHOOSE j \in 1..Len(s) :
                      s[j] = " " /\ \A k \in 1..(j - 1) : s[k] # " "
         IN  <<SubSeq(s, 1, i - 1)>> \o Split(SubSeq(s, i + 1, Len(s)))

\* " ".join(parts)
RECURSIVE Join(_)
Join(parts) ==
    IF Len(parts) = 0 THEN <<>>
    ELSE IF Len(parts) = 1 THEN parts[1]
    ELSE parts[1] \o <<" ">> \o Join(Tail(parts))

\* \s of a pattern: space, tab, newline, carriage return, form feed,
\* vertical tab, the four separators 0x1c..0x1f and the white space beyond
\* ASCII
WhiteSpace ==
    {" ", "\t", "\n", "\r", "\f", "", "", "", "", ""}
        \cup UnicodeSpace

\* what float() and int() take off both ends of a text: space, tab, newline,
\* carriage return, form feed, vertical tab and the white space beyond
\* ASCII; the separators 0x1c..0x1f stay
Strip(s) ==
    LET blank == {" ", "\t", "\n", "\r", "\f", ""} \cup UnicodeSpace
        kept == {i \in 1..Len(s) : s[i] \notin blank}
    IN  IF kept = {} THEN <<>>
        ELSE SubSeq(s,
                    CHOOSE i \in kept : \A j \in 1..(i - 1) : s[j] \in blank,
                    CHOOSE i \in kept :
                        \A j \in (i + 1)..Len(s) : s[j] \in blank)

\* float() and int() read the text with every decimal digit beyond ASCII
\* replaced by the ASCII digit of its value
ToAscii(s) ==
    <<>> \o [i \in 1..Len(s) |->
                IF s[i] \in UnicodeDigits THEN DigitChar(DecimalVal(s[i]))
                ELSE s[i]]

Unsigned(s) == IF Len(s) > 0 /\ s[1] \in {"+", "-"} THEN Tail(s) ELSE s
IsNegative(s) == Len(s) > 0 /\ s[1] = "-"

DotPositions(b) == {i \in 1..Len(b) : b[i] = "."}
WithoutDot(b) == SelectSeq(b, LAMBDA c : c # ".")

\* float() and int() take "_" between two digits only, and drop it
UnderscoresOk(b) ==
    \A i \in 1..Len(b) : b[i] = "_" =>
        i > 1 /\ i < Len(b) /\ b[i - 1] \in Digits /\ b[i + 1] \in Digits
WithoutUnderscores(b) == SelectSeq(b, LAMBDA c : c # "_")

\* "inf" for inf and infinity, "nan" for nan, in any case of the letters;
\* "" for every other text
SpecialFloat(b) ==
    LET Lower(c) ==
            CASE c = "A" -> "a" [] c = "F" -> "f" [] c = "I" -> "i"
              [] c = "N" -> "n" [] c = "T" -> "t" [] c = "Y" -> "y"
              [] OTHER -> c
        low == [i \in 1..Len(b) |-> Lower(b[i])]
    IN  IF low \in {<<"i", "n", "f">>,
                    <<"i", "n", "f", "i", "n", "i", "t", "y">>}
        THEN "inf"
        ELSE IF low = <<"n", "a", "n">> THEN "nan" ELSE ""

\* a decimal text cut at its first "e" or "E": the mantissa before it and
\* the exponent after it ("0" when there is none)
SplitExponent(p) ==
    LET es == {i \in 1..Len(p) : p[i] \in {"e", "E"}}
        e == CHOOSE i \in es : \A j \in es : i <= j
    IN  IF es = {} THEN [mant |-> p, exp |-> <<"0">>]
        ELSE [mant |-> SubSeq(p, 1, e - 1), exp |-> SubSeq(p, e + 1, Len(p))]

\* float(text) succeeds: white space around, an optional sign, then inf,
\* infinity or nan, or digits with at most one point and at least one digit,
\* and an optional exponent of an optional sign and digits
IsFloatText(s) ==
    LET b == Unsigned(ToAscii(Strip(s)))
        d == SplitExponent(WithoutUnderscores(b))
        x == Unsigned(d.exp)
    IN  \/ SpecialFloat(b) # ""
        \/ /\ UnderscoresOk(b)
           /\ \A i \in 1..Len(d.mant) : d.mant[i] \in Digits \cup {"."}
           /\ Cardinality(DotPositions(d.mant)) <= 1
           /\ Len(WithoutDot(d.mant)) >= 1
           /\ Len(x) >= 1 /\ \A i \in 1..Len(x) : x[i] \in Digits

\* -------------------------------------------------- numbers of any size
\* A natural number is the sequence of its decimal digits 0..9, the most
\* significant first and none of them a leading zero; <<>> is 0.
Zeros(k) == [i \in 1..k |-> 0]

Norm(d) ==
    IF \A i \in 1..Len(d) : d[i] = 0 THEN <<>>
    ELSE SubSeq(d, CHOOSE i \in 1..Len(d) :
                       d[i] # 0 /\ \A j \in 1..(i - 1) : d[j] = 0, Len(d))

\* a < b
Less(a, b) ==
    IF Len(a) # Len(b) THEN Len(a) < Len(b)
    ELSE \E i \in 1..Len(a) :
            a[i] < b[i] /\ \A j \in 1..(i - 1) : a[j] = b[j]

\* d + 1
Succ(d) ==
    IF \A i \in 1..Len(d) : d[i] = 9 THEN <<1>> \o Zeros(Len(d))
    ELSE LET p == CHOOSE i \in 1..Len(d) :
                      d[i] # 9 /\ \A j \in (i + 1)..Len(d) : d[j] = 9
         IN  <<>> \o [i \in 1..Len(d) |->
                         IF i < p THEN d[i]
                         ELSE IF i = p THEN d[i] + 1 ELSE 0]

\* the number of at most nine digits
RECURSIVE Small(_)
Small(d) ==
    IF Len(d) = 0 THEN 0 ELSE 10 * Small(SubSeq(d, 1, Len(d) - 1)) + d[Len(d)]

\* the number the k digits of d that end at position j make
RECURSIVE Window(_, _, _)
Window(d, j, k) ==
    IF k = 0 \/ j < 1 THEN 0 ELSE 10 * Window(d, j - 1, k - 1) + d[j]

\* the digits of d \div m, as many as d has, for an m that divides 10^k:
\* what is left of the digits before position j is what is left of the k
\* digits before it
DivBy(d, m, k) ==
    <<>> \o [j \in 1..Len(d) |->
                ((Window(d, j - 1, k) % m) * 10 + d[j]) \div m]

\* A number with a fraction is [i, f, st]: the integer part, the digits
\* behind the point, and whether a part below them was cut off.
\* w * 2^k for k <= 9, as w * 10^k \div 5^k
Up(w, k) ==
    LET cut(q) == [i |-> Norm(SubSeq(q, 1, Len(w.i) + k)),
                   f |-> SubSeq(q, Len(w.i) + k + 1, Len(q)), st |-> w.st]
    IN  cut(DivBy(w.i \o w.f \o Zeros(k), 5 ^ k, k))

\* w \div 2^k for k <= 9 and w without a fraction
Down(w, k) ==
    [i |-> Norm(DivBy(w.i, 2 ^ k, k)), f |-> w.f,
     st |-> w.st \/ Window(w.i, Len(w.i), k) % (2 ^ k) # 0]

\* w * 2^s for s > 0, w \div 2^(-s) for s < 0, nine binary digits at a time
RECURSIVE Shift(_, _)
Shift(w, s) ==
    LET k == IF s > 9 THEN 9 ELSE IF s < -9 THEN -9 ELSE s
        rest(v) == IF Len(v.i) >= 0 THEN Shift(v, s - k) ELSE v
    IN  IF s = 0 THEN w
        ELSE rest(IF k > 0 THEN Up(w, k) ELSE Down(w, 0 - k))

\* the same for any s, ninety binary digits at a time
RECURSIVE ShiftFar(_, _)
ShiftFar(w, s) ==
    LET k == IF s > 90 THEN 90 ELSE IF s < -90 THEN -90 ELSE s
        rest(v) == IF s = k THEN v
                   ELSE IF Len(v.i) >= 0 THEN ShiftFar(v, s - k) ELSE v
    IN  rest(Shift(w, k))

\* 2^53 and 2^54
TwoTo53 == <<9, 0, 0, 7, 1, 9, 9, 2, 5, 4, 7, 4, 0, 9, 9, 2>>
TwoTo54 == <<1, 8, 0, 1, 4, 3, 9, 8, 5, 0, 9, 4, 8, 1, 9, 8, 4>>

\* w is a whole number below 2^53
Whole(w) == Norm(w.f) = <<>> /\ ~w.st /\ Less(w.i, TwoTo53)

\* w, not 0, brought between 2^53 and 2^54 by a power of 2, or as far up
\* as 2^1075 takes it, or only until it is a whole number: [w * 2^s, s]
RECURSIVE Scaled(_, _)
Scaled(w, s) ==
    LET k == IF ~Less(w.i, TwoTo54)
             THEN IF Len(w.i) >= 47 THEN -90
                  ELSE IF Len(w.i) >= 20 THEN -9 ELSE -1
             ELSE IF /\ s + 90 <= 1075 /\ w.i = <<>> /\ Len(w.f) >= 28
                     /\ \A j \in 1..28 : w.f[j] = 0
             THEN 90
             ELSE IF s + 9 <= 1075 /\ Len(w.i) <= 13 THEN 9
             ELSE IF s + 3 <= 1075 /\ Len(w.i) <= 15 THEN 3 ELSE 1
        rest(v) == IF Len(v.i) >= 0 THEN Scaled(v, s + k)
                   ELSE [w |-> v, s |-> s]
    IN  IF \/ Whole(w)
           \/ ~Less(w.i, TwoTo53) /\ Less(w.i, TwoTo54)
           \/ s = 1075
        THEN [w |-> w, s |-> s]
        ELSE rest(Shift(w, k))

\* A float is [neg, kind, m, e]: kind "nan", "inf", or "num" for the number
\* m * 2^e with m <= 2^53.
\* The double nearest to digs * 10^t, the one of the even m of two equally
\* near, inf from 2^1024 - 2^970 on; a number that doubled s < 1075 times
\* is a whole number below 2^53 is a double itself
Nearest(neg, digs, t) ==
    LET d == Norm(digs)
        n == 0 - t
        w == IF t >= 0 THEN [i |-> d \o Zeros(t), f |-> <<>>, st |-> FALSE]
             ELSE IF Len(d) > n
             THEN [i |-> SubSeq(d, 1, Len(d) - n),
                   f |-> SubSeq(d, Len(d) - n + 1, Len(d)), st |-> FALSE]
             ELSE [i |-> <<>>, f |-> Zeros(n - Len(d)) \o d, st |-> FALSE]
        odd(x) == Len(x) > 0 /\ x[Len(x)] % 2 = 1
        float(m, e) ==
            IF e > 971 \/ (e = 971 /\ m = TwoTo53)
            THEN [neg |-> neg, kind |-> "inf", m |-> <<>>, e |-> 0]
            ELSE [neg |-> neg, kind |-> "num", m |-> m, e |-> e]
        halved(c, q) ==
            float(IF odd(c.w.i) /\ (c.w.st \/ Norm(c.w.f) # <<>> \/ odd(q))
                  THEN Succ(q) ELSE q,
                  1 - c.s)
        rounded(c) ==
            IF Whole(c.w) /\ c.s < 1075
            THEN [neg |-> neg, kind |-> "num", m |-> c.w.i, e |-> 0 - c.s]
            ELSE halved(c, Norm(DivBy(c.w.i, 2, 1)))
    IN  IF d = <<>> \/ Len(d) + t < -330
        THEN [neg |-> neg, kind |-> "num", m |-> <<>>, e |-> 0]
        ELSE IF Len(d) + t > 310
        THEN [neg |-> neg, kind |-> "inf", m |-> <<>>, e |-> 0]
        ELSE rounded(Scaled(w, 0))

\* float(text) of a text float() accepts
ParseFloat(s) ==
    LET t == ToAscii(Strip(s))
        b == Unsigned(t)
        d == SplitExponent(WithoutUnderscores(b))
        dots == DotPositions(d.mant)
        frac == IF dots = {} THEN 0
                ELSE Len(d.mant) - (CHOOSE i \in dots : TRUE)
        m == WithoutDot(d.mant)
        xd == Norm([i \in 1..Len(Unsigned(d.exp)) |->
                       DigitVal(Unsigned(d.exp)[i])])
        xv == IF Len(xd) > 6 THEN 1000000 ELSE Small(xd)
        x == IF IsNegative(d.exp) THEN 0 - xv ELSE xv
    IN  IF SpecialFloat(b) # ""
        THEN [neg |-> IsNegative(t), kind |-> SpecialFloat(b), m |-> <<>>,
              e |-> 0]
        ELSE Nearest(IsNegative(t), [i \in 1..Len(m) |-> DigitVal(m[i])],
                     x - frac)

\* int(x) of a float that is a number: the digits of its value cut toward
\* zero
TruncFloat(f) ==
    IF f.e < -53 THEN <<>>
    ELSE ShiftFar([i |-> f.m, f |-> <<>>, st |-> FALSE], f.e).i

\* int(text) succeeds: white space around, an optional sign, digits, no
\* more of them than sys.get_int_max_str_digits()
IsIntText(s) ==
    LET b == Unsigned(ToAscii(Strip(s)))
        p == WithoutUnderscores(b)
    IN  /\ UnderscoresOk(b)
        /\ Len(p) >= 1 /\ \A i \in 1..Len(p) : p[i] \in Digits
        /\ Len(p) <= 4300

\* int(text) of a text int() accepts: its sign and its digits
IntParts(s) ==
    LET t == ToAscii(Strip(s))
        p == WithoutUnderscores(Unsigned(t))
    IN  [neg |-> IsNegative(t),
         d |-> Norm([i \in 1..Len(p) |-> DigitVal(p[i])])]

\* int(text) of a text int() accepts, for a value of at most nine digits
IntValue(s) ==
    IF IntParts(s).neg THEN 0 - Small(IntParts(s).d) ELSE Small(IntParts(s).d)

\* str(n) of an int
RECURSIVE NatToText(_)
NatToText(n) ==
    IF n < 10 THEN <<DigitChar(n)>>
    ELSE NatToText(n \div 10) \o <<DigitChar(n % 10)>>

\* str(n) of an int of any size, given by its sign and its digits
BigToText(neg, d) ==
    IF d = <<>> THEN <<"0">>
    ELSE (IF neg THEN <<"-">> ELSE <<>>)
            \o [i \in 1..Len(d) |-> DigitChar(d[i])]

\* ------------------------------------------------------------ EnumDecoder
\* the members of the three Enum classes by value: the name of value v is
\* at position v + 1.  Each class ends with its count member
\* (CTRL_numStates, EST_numStates, USER_numErrorCodes).
CTRL_State ==
    << "CTRL_State_Error", "CTRL_State_Idle", "CTRL_State_OffLine",
      "CTRL_State_OnLine", "CTRL_numStates" >>

EST_State ==
    << "EST_State_Error", "EST_State_Idle", "EST_State_RoverL",
      "EST_State_Rs", "EST_State_RampUp", "EST_State_IdRated",
      "EST_State_RatedFlux_OL", "EST_State_RatedFlux", "EST_State_RampDown",
      "EST_State_LockRotor", "EST_State_Ls", "EST_State_Rr",
      "EST_State_MotorIdentified", "EST_State_OnLine", "EST_numStates" >>

USER_ErrorCode ==
    << "USER_ErrorCode_NoError", "USER_ErrorCode_iqFullScaleCurrent_A_High",
      "USER_ErrorCode_iqFullScaleCurrent_A_Low",
      "USER_ErrorCode_iqFullScaleVoltage_V_High",
      "USER_ErrorCode_iqFullScaleVoltage_V_Low",
      "USER_ErrorCode_iqFullScaleFreq_Hz_High",
      "USER_ErrorCode_iqFullScaleFreq_Hz_Low",
      "USER_ErrorCode_numPwmTicksPerIsrTick_High",
      "USER_ErrorCode_numPwmTicksPerIsrTick_Low",
      "USER_ErrorCode_numIsrTicksPerCtrlTick_High",
      "USER_ErrorCode_numIsrTicksPerCtrlTick_Low",
      "USER_ErrorCode_numCtrlTicksPerCurrentTick_High",
      "USER_ErrorCode_numCtrlTicksPerCurrentTick_Low",
      "USER_ErrorCode_numCtrlTicksPerEstTick_High",
      "USER_ErrorCode_numCtrlTicksPerEstTick_Low",
      "USER_ErrorCode_numCtrlTicksPerSpeedTick_High",
      "USER_ErrorCode_numCtrlTicksPerSpeedTick_Low",
      "USER_ErrorCode_numCtrlTicksPerTrajTick_High",
      "USER_ErrorCode_numCtrlTicksPerTrajTick_Low",
      "USER_ErrorCode_numCurrentSensors_High",
      "USER_ErrorCode_numCurrentSensors_Low",
      "USER_ErrorCode_numVoltageSensors_High",
      "USER_ErrorCode_numVoltageSensors_Low",
      "USER_ErrorCode_offsetPole_rps_High",
      "USER_ErrorCode_offsetPole_rps_Low", "USER_ErrorCode_fluxPole_rps_High",
      "USER_ErrorCode_fluxPole_rps_Low", "USER_ErrorCode_zeroSpeedLimit_High",
      "USER_ErrorCode_zeroSpeedLimit_Low",
      "USER_ErrorCode_forceAngleFreq_Hz_High",
      "USER_ErrorCode_forceAngleFreq_Hz_Low",
      "USER_ErrorCode_maxAccel_Hzps_High", "USER_ErrorCode_maxAccel_Hzps_Low",
      "USER_ErrorCode_maxAccel_est_Hzps_High",
      "USER_ErrorCode_maxAccel_est_Hzps_Low",
      "USER_ErrorCode_directionPole_rps_High",
      "USER_ErrorCode_directionPole_rps_Low",
      "USER_ErrorCode_speedPole_rps_High", "USER_ErrorCode_speedPole_rps_Low",
      "USER_ErrorCode_dcBusPole_rps_High", "USER_ErrorCode_dcBusPole_rps_Low",
      "USER_ErrorCode_fluxFraction_High", "USER_ErrorCode_fluxFraction_Low",
      "USER_ErrorCode_indEst_speedMaxFraction_High",
      "USER_ErrorCode_indEst_speedMaxFraction_Low",
      "USER_ErrorCode_powerWarpGain_High", "USER_ErrorCode_powerWarpGain_Low",
      "USER_ErrorCode_systemFreq_MHz_High",
      "USER_ErrorCode_systemFreq_MHz_Low", "USER_ErrorCode_pwmFreq_kHz_High",
      "USER_ErrorCode_pwmFreq_kHz_Low", "USER_ErrorCode_voltage_sf_High",
      "USER_ErrorCode_voltage_sf_Low", "USER_ErrorCode_current_sf_High",
      "USER_ErrorCode_current_sf_Low",
      "USER_ErrorCode_voltageFilterPole_Hz_High",
      "USER_ErrorCode_voltageFilterPole_Hz_Low",
      "USER_ErrorCode_maxVsMag_pu_High", "USER_ErrorCode_maxVsMag_pu_Low",
      "USER_ErrorCode_estKappa_High", "USER_ErrorCode_estKappa_Low",
      "USER_ErrorCode_motor_type_Unknown",
      "USER_ErrorCode_motor_numPolePairs_High",
      "USER_ErrorCode_motor_numPolePairs_Low",
      "USER_ErrorCode_motor_ratedFlux_High",
      "USER_ErrorCode_motor_ratedFlux_Low", "USER_ErrorCode_motor_Rr_High",
      "USER_ErrorCode_motor_Rr_Low", "USER_ErrorCode_motor_Rs_High",
      "USER_ErrorCode_motor_Rs_Low", "USER_ErrorCode_motor_Ls_d_High",
      "USER_ErrorCode_motor_Ls_d_Low", "USER_ErrorCode_motor_Ls_q_High",
      "USER_ErrorCode_motor_Ls_q_Low", "USER_ErrorCode_maxCurrent_High",
      "USER_ErrorCode_maxCurrent_Low",
      "USER_ErrorCode_maxCurrent_resEst_High",
      "USER_ErrorCode_maxCurrent_resEst_Low",
      "USER_ErrorCode_maxCurrent_indEst_High",
      "USER_ErrorCode_maxCurrent_indEst_Low",
      "USER_ErrorCode_maxCurrentSlope_High",
      "USER_ErrorCode_maxCurrentSlope_Low",
      "USER_ErrorCode_maxCurrentSlope_powerWarp_High",
      "USER_ErrorCode_maxCurrentSlope_powerWarp_Low",
      "USER_ErrorCode_IdRated_High", "USER_ErrorCode_IdRated_Low",
      "USER_ErrorCode_IdRatedFraction_indEst_High",
      "USER_ErrorCode_IdRatedFraction_indEst_Low",
      "USER_ErrorCode_IdRatedFraction_ratedFlux_High",
      "USER_ErrorCode_IdRatedFraction_ratedFlux_Low",
      "USER_ErrorCode_IdRated_delta_High", "USER_ErrorCode_IdRated_delta_Low",
      "USER_ErrorCode_fluxEstFreq_Hz_High",
      "USER_ErrorCode_fluxEstFreq_Hz_Low", "USER_ErrorCode_ctrlFreq_Hz_High",
      "USER_ErrorCode_ctrlFreq_Hz_Low", "USER_ErrorCode_estFreq_Hz_High",
      "USER_ErrorCode_estFreq_Hz_Low",
      "USER_ErrorCode_RoverL_estFreq_Hz_High",
      "USER_ErrorCode_RoverL_estFreq_Hz_Low",
      "USER_ErrorCode_trajFreq_Hz_High", "USER_ErrorCode_trajFreq_Hz_Low",
      "USER_ErrorCode_ctrlPeriod_sec_High",
      "USER_ErrorCode_ctrlPeriod_sec_Low",
      "USER_ErrorCode_maxNegativeIdCurrent_a_High",
      "USER_ErrorCode_maxNegativeIdCurrent_a_Low", "USER_numErrorCodes" >>

\* the alternatives of the pattern (UserErrorCode:|CtrlState:|EstState:),
\* in its order
UserErrorCodeMarker ==
    <<"U", "s", "e", "r", "E", "r", "r", "o", "r", "C", "o", "d", "e", ":">>
CtrlStateMarker == <<"C", "t", "r", "l", "S", "t", "a", "t", "e", ":">>
EstStateMarker == <<"E", "s", "t", "S", "t", "a", "t", "e", ":">>
Markers == <<UserErrorCodeMarker, CtrlStateMarker, EstStateMarker>>

\* the Enum class replace_match looks the number up in
EnumOf(prefix) ==
    CASE prefix = UserErrorCodeMarker -> USER_ErrorCode
      [] prefix = CtrlStateMarker -> CTRL_State
      [] prefix = EstStateMarker -> EST_State

\* text s continues at position i with the characters of m
HasPrefixAt(s, i, m) ==
    i + Len(m) - 1 <= Len(s) /\ SubSeq(s, i, i + Len(m) - 1) = m

\* the last position of the longest run of characters of S that starts at
\* position j; j - 1 if there is none
RunEnd(s, j, S) ==
    IF \A i \in j..Len(s) : s[i] \in S THEN Len(s)
    ELSE (CHOOSE i \in j..Len(s) :
              s[i] \notin S /\ \A n \in j..(i - 1) : s[n] \in S) - 1

NoMatch == [found |-> FALSE]

\* the match of (m1|m2|..)\s*(\d+) that starts at position i, for the
\* alternatives ms
MatchAt(s, i, ms) ==
    IF \E k \in 1..Len(ms) : HasPrefixAt(s, i, ms[k])
    THEN LET m == ms[CHOOSE k \in 1..Len(ms) :
                        /\ HasPrefixAt(s, i, ms[k])
                        /\ \A j \in 1..(k - 1) : ~HasPrefixAt(s, i, ms[j])]
             ws == RunEnd(s, i + Len(m), WhiteSpace)
             de == RunEnd(s, ws + 1, DecimalDigits)
         IN  IF de > ws
             THEN [found |-> TRUE, prefix |-> m, start |-> i, end |-> de,
                   number_str |-> SubSeq(s, ws + 1, de)]
             ELSE NoMatch
    ELSE NoMatch

\* Enum(number) succeeds: number is the value of a member
IsMember(enum, number) == number + 1 <= Len(enum)

\* replace_match: f"{prefix} {Enum(number).name}", or the matched text when
\* int() rejects the digits for their number or the Enum has no member of
\* this value.  The name is one element of the resulting text.
replace_match(s, match) ==
    LET number == IntParts(match.number_str).d
    IN  IF /\ IsIntText(match.number_str)
           /\ Len(number) <= 9
           /\ IsMember(EnumOf(match.prefix), Small(number))
        THEN match.prefix \o <<" ">>
                \o <<EnumOf(match.prefix)[Small(number) + 1]>>
        ELSE SubSeq(s, match.start, match.end)

\* re.sub(pattern, replace_match, message) from position i on: leftmost
\* matches, one after the other, none overlapping
RECURSIVE SubFrom(_, _)
SubFrom(s, i) ==
    IF i > Len(s) THEN <<>>
    ELSE LET match == MatchAt(s, i, Markers)
         IN  IF match.found
             THEN replace_match(s, match) \o SubFrom(s, match.end + 1)
             ELSE <<s[i]>> \o SubFrom(s, i + 1)

replace_enum_values(message) == SubFrom(message, 1)

\* re.search(r"(marker)\s*(\d+)", s): the leftmost match of one marker
RECURSIVE SearchFrom(_, _, _)
SearchFrom(s, i, marker) ==
    IF i > Len(s) THEN NoMatch
    ELSE LET match == MatchAt(s, i, <<marker>>)
         IN  IF match.found THEN match ELSE SearchFrom(s, i + 1, marker)

\* ------------------------------------------------------- ParameterCatalog
\* self.param_index in declaration order; position i holds catalog index i-1
param_index ==
    << [name |-> "Node ID",        index |-> 0,  kind |-> "int"],
       [name |-> "ESC Index",      index |-> 1,  kind |-> "int"],
       [name |-> "Arming",         index |-> 2,  kind |-> "int"],
       [name |-> "Telemetry Rate", index |-> 3,  kind |-> "int"],
       [name |-> "CAN Speed",      index |-> 4,  kind |-> "int"],
       [name |-> "Max Speed",      index |-> 5,  kind |-> "float"],
       [name |-> "Control Word",   index |-> 6,  kind |-> "int"],
       [name |-> "Midle Point",    index |-> 7,  kind |-> "int"],
       [name |-> "Acceleration",   index |-> 8,  kind |-> "float"],
       [name |-> "Motor Poles",    index |-> 9,  kind |-> "int"],
       [name |-> "KP",             index |-> 10, kind |-> "float"],
       [name |-> "KI",             index |-> 11, kind |-> "float"] >>

\* len(self.param_index)
N == Len(param_index)

\* self.integer_params_index
integer_params_index ==
    {param_index[i].index : i \in {j \in 1..N : param_index[j].kind = "int"}}

\* self.param_index[name][0]
IndexOf(name) ==
    param_index[CHOOSE i \in 1..N : param_index[i].name = name].index

ParamNames == {param_index[i].name : i \in 1..N}

\* self.bmap in declaration order: CAN bitrate label and the code it sends
bmap ==
    << [label |-> "1MHz->12",   code |-> 12],
       [label |-> "500KHz->11", code |-> 11],
       [label |-> "250KHz->10", code |-> 10],
       [label |-> "200KHz->9",  code |-> 9],
       [label |-> "125KHz->8",  code |-> 8],
       [label |-> "100KHz->7",  code |-> 7],
       [label |-> "80KHz->6",   code |-> 6],
       [label |-> "50KHz->5",   code |-> 5] >>

BaudLabels == {bmap[i].label : i \in 1..Len(bmap)}

\* the position of the label in the combo box instead of its code
BaudPosition(label) == CHOOSE i \in 1..Len(bmap) : bmap[i].label = label

\* self.bmap[label]
BaudCode(label) ==
    bmap[CHOOSE i \in 1..Len(bmap) : bmap[i].label = label].code

\* next((key for key, value in self.bmap.items() if value == v), None):
\* the first label whose code is v, "" standing for None
BaudKey(v) ==
    IF \E i \in 1..Len(bmap) : bmap[i].code = v
    THEN bmap[CHOOSE i \in 1..Len(bmap) :
                /\ bmap[i].code = v
                /\ \A j \in 1..(i - 1) : bmap[j].code # v].label
    ELSE ""

\* the items of the telemetry rate combo box: str(r) for r in
\* [0, 1, 5, 10, 20, 25, 50, 100]
TeleRates ==
    {NatToText(0), NatToText(1), NatToText(5), NatToText(10), NatToText(20),
     NatToText(25), NatToText(50), NatToText(100)}

\* self.checkboxes in declaration order
checkboxes ==
    <<"enableSys", "runIdentify", "FieldWeakening", "ForceAngle", "RsRecalc",
      "PowerWarp", "UserParams">>

\* ------------------------------------------------------------ node texts
\* str.split(sep) for a one-character separator
RECURSIVE SplitAt(_, _)
SplitAt(s, sep) ==
    IF \A i \in 1..Len(s) : s[i] # sep
    THEN <<s>>
    ELSE LET i == CHOOSE j \in 1..Len(s) :
                      s[j] = sep /\ \A k \in 1..(j - 1) : s[k] # sep
         IN  <<SubSeq(s, 1, i - 1)>> \o SplitAt(SubSeq(s, i + 1, Len(s)), sep)

\* bus nodes the host's registry may know, and the name their info carries
NodeIds == {2, 10}
NodeName == <<"e", "s", "c">>

\* "%u: %s" % (nid, r.info.name.decode()) and "%u" % nid
ItemText(nid, named) ==
    IF named THEN NatToText(nid) \o <<":", " ">> \o NodeName ELSE NatToText(nid)

\* code point of a character of a node text
Code(c) ==
    CASE c = " " -> 32 [] c = ":" -> 58 [] c = "c" -> 99 [] c = "e" -> 101
      [] c = "s" -> 115 [] OTHER -> 48 + DigitVal(c)

\* a < b for Python strings
RECURSIVE LessText(_, _)
LessText(a, b) ==
    IF Len(b) = 0 THEN FALSE
    ELSE IF Len(a) = 0 THEN TRUE
    ELSE IF a[1] = b[1] THEN LessText(Tail(a), Tail(b))
    ELSE Code(a[1]) < Code(b[1])

\* sorted(texts)
RECURSIVE SortedTexts(_)
SortedTexts(S) ==
    IF S = {} THEN <<>>
    ELSE LET m == CHOOSE x \in S : \A y \in S \ {x} : LessText(x, y)
         IN  <<m>> \o SortedTexts(S \ {m})

\* ------------------------------------------------------------------ state
VARIABLES
    current_index,  \* self.current_index, the cursor
    messages,       \* self.messages, an insertion-ordered dict:
                    \*   a sequence of [key, index, value]
    timer,          \* identity of the QTimer self.timer holds, 0: no attribute
    timers,         \* identities of the QTimers that exist and are running
    nodeid,         \* self.nodeid, 0: attribute not yet set
    node_select,    \* item texts of the node combo box, in order
    selected,       \* position of its current item, 0: no item (text "")
    pending,        \* scheduled single-shot send_value calls, oldest first
    fetch_label,    \* text of self.fetch_label
    registry,       \* the host's node registry: nid -> "absent"|"anon"|"named"
    sent,           \* the request last handed to node.request
    lastOp,         \* the handler that ran last
    lastText,       \* the text of the message it handled, if it handled one
    err,            \* the exception that handler ended with, "none" if none
    widgets,        \* values of the twelve input widgets; a QDoubleSpinBox
                    \*   holds its value as [num, den], den = 10^decimals
    displays,       \* paragraphs of the three log views
    updated_message,\* what replace_enum_values returned at line 580 for the
                    \*   log message handled last
    lastLevel,      \* level.value of the message handled last, -1: none yet
    lastTicker,     \* identity of the QTimer whose timeout ran last
    before,         \* store size, ticker state, checked boxes and logged
                    \*   paragraphs that handler found
    stamp,          \* flips whenever a handler runs
    lastGet,        \* index of the session's latest get request, -1: none
    sessGets,       \* get requests emitted since the last startFetch
    sessTicks,      \* ticks since the last startFetch
    sessSets,       \* set actions since the last startFetch
    sessTarget,     \* the node selected when the last startFetch ran, 0: none
    signals,        \* times fetch-complete was signalled since then
    nFetch,         \* presses of "Fetch All" so far
    nSet,           \* presses of a "Set" button so far
    nMsg,           \* informational messages counted against a bound so far
    nStray,         \* responses that did not arrive before the next tick
    nExtra          \* messages that followed a fetch-complete so far

panelVars == <<current_index, messages, timer, timers, nodeid, node_select,
               selected, pending, fetch_label>>
obsVars == <<lastOp, lastText, err, lastTicker, before, stamp>>
sessVars == <<lastGet, sessGets, sessTicks, sessSets, sessTarget, signals>>
runVars == <<nFetch, nSet, nMsg, nStray, nExtra>>
viewVars == <<widgets, displays, updated_message, lastLevel>>
vars == <<panelVars, registry, sent, obsVars, sessVars, runVars, viewVars>>

LabelFetching == "Fetch all parameters by index about 10s"
LabelFetched == "All parameters fetched"
NoRequest == [op |-> "none", index |-> -1, dest |-> 0, real |-> FALSE,
              value |-> 0]
NoText == <<>>

\* the three log views without a paragraph
NoDisplays ==
    [CtrlState_display |-> <<>>, EstState_display |-> <<>>,
     UserErrorCode_display |-> <<>>]

\* the widgets as __init__ leaves them
InitWidgets ==
    [node_id      |-> 1,
     esc_index    |-> 0,
     arming       |-> FALSE,
     tele_rate    |-> NatToText(25),
     baudrate     |-> bmap[2].label,
     max_speed    |-> [num |-> 500, den |-> 100],
     checkboxes   |-> [i \in 1..Len(checkboxes) |-> FALSE],
     midle_point  |-> FALSE,
     acceleration |-> [num |-> 200, den |-> 100],
     motor_poles  |-> 14,
     kp           |-> [num |-> 3000, den |-> 1000],
     ki           |-> [num |-> 59, den |-> 1000]]

\* what a handler finds when it starts
Snapshot ==
    [len |-> Len(messages), running |-> timers # {},
     checked |-> Cardinality({i \in 1..Len(checkboxes) :
                                 widgets.checkboxes[i]}),
     logged |-> Len(displays.CtrlState_display)
                   + Len(displays.EstState_display)
                   + Len(displays.UserErrorCode_display)]

\* __init__: no timer and no nodeid attribute yet, empty node combo box
InitPanel ==
    /\ current_index = 0
    /\ messages = <<>>
    /\ timer = 0
    /\ timers = {}
    /\ nodeid = 0
    /\ node_select = <<>>
    /\ selected = 0
    /\ pending = <<>>
    /\ fetch_label = LabelFetching
    /\ sent = NoRequest
    /\ widgets = InitWidgets
    /\ displays = NoDisplays
    /\ updated_message = NoText
    /\ lastLevel = -1
    /\ lastOp = "init"
    /\ lastText = NoText
    /\ err = "none"
    /\ lastTicker = 0
    /\ before = [len |-> 0, running |-> FALSE, checked |-> 0, logged |-> 0]
    /\ stamp = FALSE
    /\ lastGet = -1
    /\ sessGets = 0
    /\ sessTicks = 0
    /\ sessSets = 0
    /\ sessTarget = 0
    /\ signals = 0
    /\ nFetch = 0
    /\ nSet = 0
    /\ nMsg = 0
    /\ nStray = 0
    /\ nExtra = 0

\* the registry belongs to the host: it knows no node, or all of them
NoNodes == [n \in NodeIds |-> "absent"]
AllNamed == [n \in NodeIds |-> "named"]

Init == InitPanel /\ registry \in {NoNodes, AllNamed}

\* ---------------------------------------------------------- ParameterStore
Keys(store) == {store[i].key : i \in 1..Len(store)}
Entry(store, k) == store[CHOOSE i \in 1..Len(store) : store[i].key = k]

\* self.messages[key] = (index, value): a present key keeps its position
Put(store, k, idx, val) ==
    LET e == [key |-> k, index |-> idx, value |-> val]
    IN  IF k \in Keys(store)
        THEN [i \in 1..Len(store) |-> IF store[i].key = k THEN e ELSE store[i]]
        ELSE Append(store, e)

\* self.messages = {} of send_param_requests
FreshStore == <<>>

\* ------------------------------------------------------------- combo box
\* self.node_select.currentText()
CurrentText == IF selected = 0 THEN <<>> ELSE node_select[selected]

\* int(self.node_select.currentText().split(":")[0])
SelectedNodeRaises == ~IsIntText(SplitAt(CurrentText, ":")[1])
SelectedNode == IntValue(SplitAt(CurrentText, ":")[1])

\* ------------------------------------------------------------- operations
\* self.timer = QTimer(); ...; self.timer.start(987): the QTimer self.timer
\* held before loses its only reference and is destroyed with its wrapper,
\* so it never fires again
LeakedTimers(old, fresh) == timers \cup {fresh}
TimersAfterStart(old, fresh) == (timers \ {old}) \cup {fresh}

\* self.current_index = 0 of send_param_requests
StartCursor == 0

\* send_param_requests, the startFetch of the "Fetch All" button.  With no
\* item in the node combo box int("") raises after the store was reset.
send_param_requests ==
    /\ nFetch < MaxFetches
    /\ nFetch' = nFetch + 1
    /\ lastOp' = "send_param_requests"
    /\ before' = Snapshot
    /\ stamp' = ~stamp
    /\ lastText' = NoText
    /\ fetch_label' = LabelFetching
    /\ messages' = FreshStore
    /\ IF SelectedNodeRaises
       THEN /\ err' = "ValueError"
            /\ UNCHANGED <<current_index, timer, timers, nodeid, sessVars>>
       ELSE /\ err' = "none"
            /\ nodeid' = SelectedNode
            /\ current_index' = StartCursor
            /\ timer' = nFetch + 1
            /\ timers' = TimersAfterStart(timer, nFetch + 1)
            /\ lastGet' = -1
            /\ sessGets' = 0
            /\ sessTicks' = 0
            /\ sessSets' = 0
            /\ sessTarget' = SelectedNode
            /\ signals' = 0
    /\ UNCHANGED <<node_select, selected, pending, registry, sent,
                   lastTicker, nSet, nMsg, nStray, nExtra, viewVars>>

\* self.current_index += 1
NextCursor(c) == c + 1

\* if self.current_index < len(self.param_index)
RequestsLeftOrLast(c) == c <= N
RequestsLeft(c) == c < N

\* send_next_request, the timeout slot of QTimer t
send_next_request(t) ==
    /\ t \in timers
    /\ lastOp' = "send_next_request"
    /\ before' = Snapshot
    /\ stamp' = ~stamp
    /\ lastText' = NoText
    /\ err' = "none"
    /\ lastTicker' = t
    /\ sessTicks' = sessTicks + 1
    /\ IF RequestsLeft(current_index)
       THEN /\ sent' = [op |-> "get", index |-> current_index,
                        dest |-> nodeid, real |-> FALSE, value |-> 0]
            /\ current_index' = NextCursor(current_index)
            /\ lastGet' = current_index
            /\ sessGets' = sessGets + 1
            /\ UNCHANGED timers
       ELSE /\ timers' = timers \ {timer}
            /\ current_index' = 0
            /\ UNCHANGED <<sent, lastGet, sessGets>>
    /\ UNCHANGED <<messages, timer, nodeid, node_select, selected, pending,
                   fetch_label, registry, sessSets, sessTarget, signals,
                   nFetch, nSet, nMsg, viewVars>>

\* the value a set handler reads from its widget is a Python float for the
\* four QDoubleSpinBox fields and an int for the others
SetValueIsFloat(name) == name \in {"Max Speed", "Acceleration", "KP", "KI"}

\* get_byte_from_checkboxes: bit i is the i-th checkbox
RECURSIVE BitsValue(_)
BitsValue(boxes) ==
    IF Len(boxes) = 0 THEN 0
    ELSE (IF Head(boxes) THEN 1 ELSE 0) + 2 * BitsValue(Tail(boxes))

\* the same with the bits counted from 1: byte |= 1 << (i + 1)
get_byte_one_based(w) == 2 * BitsValue(w.checkboxes)
get_byte_from_checkboxes(w) == BitsValue(w.checkboxes)

\* the value a set handler reads from its widget
WidgetValue(name, w) ==
    CASE name = "Node ID"        -> w.node_id
      [] name = "ESC Index"      -> w.esc_index
      [] name = "Arming"         -> IF w.arming THEN 1 ELSE 0
      [] name = "Telemetry Rate" -> IntValue(w.tele_rate)
      [] name = "CAN Speed"      -> BaudCode(w.baudrate)
      [] name = "Max Speed"      -> w.max_speed
      [] name = "Control Word"   -> get_byte_from_checkboxes(w)
      [] name = "Midle Point"    -> IF w.midle_point THEN 1 ELSE 0
      [] name = "Acceleration"   -> w.acceleration
      [] name = "Motor Poles"    -> w.motor_poles
      [] name = "KP"             -> w.kp
      [] name = "KI"             -> w.ki

\* on_nodeid_set ... on_checkbox_set: the twelve "Set" handlers share one
\* body: move the cursor behind the parameter, read the widget, schedule
\* send_value(com_index, value)
on_set(name) ==
    /\ nSet < MaxSets
    /\ nSet' = nSet + 1
    /\ lastOp' = "on_set"
    /\ before' = Snapshot
    /\ stamp' = ~stamp
    /\ lastText' = NoText
    /\ err' = "none"
    /\ current_index' = IndexOf(name) + 1
    /\ pending' = Append(pending, [index |-> IndexOf(name),
                                   real |-> SetValueIsFloat(name),
                                   value |-> WidgetValue(name, widgets)])
    /\ sessSets' = sessSets + 1
    /\ UNCHANGED <<messages, timer, timers, nodeid, node_select, selected,
                   fetch_label, registry, sent, lastTicker, lastGet,
                   sessGets, sessTicks, sessTarget, signals, nFetch, nMsg,
                   nStray, nExtra, viewVars>>

\* send_value, run by the single-shot timer a set handler scheduled
send_value ==
    /\ pending # <<>>
    /\ pending' = Tail(pending)
    /\ lastOp' = "send_value"
    /\ before' = Snapshot
    /\ stamp' = ~stamp
    /\ lastText' = NoText
    /\ IF SelectedNodeRaises
       THEN /\ err' = "ValueError"
            /\ UNCHANGED <<nodeid, sent>>
       ELSE /\ err' = "none"
            /\ nodeid' = SelectedNode
            /\ sent' = [op |-> "set", index |-> Head(pending).index,
                        dest |-> SelectedNode, real |-> Head(pending).real,
                        value |-> Head(pending).value]
    /\ UNCHANGED <<current_index, messages, timer, timers, node_select,
                   selected, fetch_label, registry, lastTicker, sessVars,
                   runVars, viewVars>>

\* the texts update_nodes builds from the registry
RegistryTexts ==
    {ItemText(n, registry[n] = "named") :
        n \in {m \in NodeIds : registry[m] # "absent"}}

\* if not n in current_node
EveryText(node_list, current_node) == node_list
NotListed(node_list, current_node) == node_list \ current_node

RECURSIVE AddItems(_, _)
AddItems(items, new) ==
    IF Len(new) = 0 THEN items
    ELSE AddItems(Append(items, Head(new)), Tail(new))

\* update_nodes: append, in sorted order, the registry texts not yet listed;
\* the first item added to an empty combo box becomes its current item
update_nodes ==
    LET current_node == {node_select[i] : i \in 1..Len(node_select)}
        fresh == SortedTexts(NotListed(RegistryTexts, current_node))
    IN  /\ fresh # <<>>
        /\ node_select' = AddItems(node_select, fresh)
        /\ selected' = IF selected = 0 THEN 1 ELSE selected
        /\ lastOp' = "update_nodes"
        /\ before' = Snapshot
        /\ stamp' = ~stamp
        /\ lastText' = NoText
        /\ err' = "none"
        /\ UNCHANGED <<current_index, messages, timer, timers, nodeid,
                       pending, fetch_label, registry, sent, lastTicker,
                       sessVars, runVars, viewVars>>

\* the operator picks another item of the node combo box
select_node(i) ==
    /\ i \in 1..Len(node_select)
    /\ i # selected
    /\ selected' = i
    /\ lastOp' = "select_node"
    /\ before' = Snapshot
    /\ stamp' = ~stamp
    /\ lastText' = NoText
    /\ err' = "none"
    /\ UNCHANGED <<current_index, messages, timer, timers, nodeid,
                   node_select, pending, fetch_label, registry, sent,
                   lastTicker, sessVars, runVars, viewVars>>

\* the operator picks another item of the CAN bitrate combo box
select_baudrate(label) ==
    /\ label \in BaudLabels
    /\ label # widgets.baudrate
    /\ widgets' = [widgets EXCEPT !.baudrate = label]
    /\ lastOp' = "select_baudrate"
    /\ before' = Snapshot
    /\ stamp' = ~stamp
    /\ lastText' = NoText
    /\ err' = "none"
    /\ UNCHANGED <<panelVars, registry, sent, lastTicker, sessVars, runVars,
                   displays, updated_message, lastLevel>>

\* the operator clicks the i-th control-word checkbox
toggle_checkbox(i) ==
    /\ i \in 1..Len(checkboxes)
    /\ widgets' = [widgets EXCEPT !.checkboxes[i] = ~@]
    /\ lastOp' = "toggle_checkbox"
    /\ before' = Snapshot
    /\ stamp' = ~stamp
    /\ lastText' = NoText
    /\ err' = "none"
    /\ UNCHANGED <<panelVars, registry, sent, lastTicker, sessVars, runVars,
                   displays, updated_message, lastLevel>>

\* the host's node monitor sees node n appear, send its name, or go
registry_change(n, st) ==
    /\ st \in {"absent", "anon", "named"}
    /\ st # registry[n]
    /\ registry' = [registry EXCEPT ![n] = st]
    /\ UNCHANGED <<panelVars, sent, obsVars, sessVars, runVars, viewVars>>

\* --------------------------------------------- correlation and decoding
\* if len(parts) >= 2
AtLeastOneToken(parts) == Len(parts) >= 1
WellFormed(parts) == Len(parts) >= 2

\* key, value = parts[0], " ".join(parts[1:])
KeyOf(parts) == parts[1]
ValueOf(parts) == Join(Tail(parts))

\* self.current_index - 1
CursorItself(c) == c
CorrelatedIndex(c) == c - 1

\* str(int(float(value))) of line 610 raises: float() rejects the text, or
\* int() is given inf or nan
DecodeRaises(idx, value) ==
    /\ idx \in integer_params_index
    /\ (~IsFloatText(value) \/ ParseFloat(value).kind # "num")

\* the exception of line 610: int(inf) is an OverflowError, whether the text
\* says inf or its number is beyond the doubles; float() of no number and
\* int(nan) are a ValueError
DecodeError(value) ==
    IF IsFloatText(value) /\ ParseFloat(value).kind = "inf"
    THEN "OverflowError"
    ELSE "ValueError"

\* if idx in self.integer_params_index: value = str(int(float(value)))
Decode(idx, value) ==
    IF idx \in integer_params_index
    THEN LET text(x) == BigToText(x.neg, TruncFloat(x))
         IN  text(ParseFloat(value))
    ELSE value

\* if len(self.messages) == len(self.param_index)
CompleteAlmost(store) == Len(store) >= N - 1
Complete(store) == Len(store) = N

\* a completion check that counts only while the ticker runs
CompleteWhileRequesting(parts, store) == Complete(store) /\ timers # {}

\* the completion check sits after the insertion block, not inside it
CompleteCheck(parts, store) == Complete(store)

\* the conversion update_ui_from_params applies to each parameter's cell
ConvertFunc(name) ==
    CASE name \in {"Max Speed", "Acceleration", "KP", "KI"} -> "float"
      [] name = "Telemetry Rate" -> "str"
      [] OTHER -> "int"

\* get_param_value(name, f) reads row 1 of the table column whose number is
\* the catalog index; update_table fills column j from the j-th store entry
CellText(store, name) == store[IndexOf(name) + 1].value

\* self.table.item(1, column_index) is None: the table has no such column
NoCell(store, name) == IndexOf(name) + 1 > Len(store)

\* the int a QSpinBox is set to is no C int: setValue raises OverflowError
\* (the binding checks the range of an int argument)
BeyondCInt(p) ==
    LET top == <<2, 1, 4, 7, 4, 8, 3, 6, 4, 8>>
    IN  ~(Less(p.d, top) \/ (p.neg /\ p.d = top))

\* get_param_value(name, f) raises: None has no text(), or f rejects the
\* text; or the setValue that follows it raises
ConvertRaises(store, name) ==
    \/ NoCell(store, name)
    \/ ConvertFunc(name) = "int" /\ ~IsIntText(CellText(store, name))
    \/ ConvertFunc(name) = "float" /\ ~IsFloatText(CellText(store, name))
    \/ /\ name \in {"Node ID", "ESC Index", "Motor Poles"}
       /\ BeyondCInt(IntParts(CellText(store, name)))

\* how update_ui_from_params ends: in the exception of the first parameter
\* in catalog order whose conversion raises.  None has no text()
\* (AttributeError), int() or float() rejects the text (ValueError), or the
\* text is an int that setValue does not take (OverflowError)
ReflectError(store) ==
    LET raising == {i \in 1..N : ConvertRaises(store, param_index[i].name)}
        error(name) ==
            IF NoCell(store, name)
            THEN "AttributeError in update_ui_from_params"
            ELSE IF \/ ConvertFunc(name) = "int"
                       /\ ~IsIntText(CellText(store, name))
                    \/ ConvertFunc(name) = "float"
                       /\ ~IsFloatText(CellText(store, name))
            THEN "ValueError in update_ui_from_params"
            ELSE "OverflowError in update_ui_from_params"
        first(r) == error(param_index[CHOOSE i \in r :
                                         \A j \in r : i <= j].name)
    IN  IF raising = {} THEN "none" ELSE first(raising)

\* QSpinBox.setValue(v): v bound by the minimum and maximum of the box
Clamp(v, lo, hi) == IF v < lo THEN lo ELSE IF v > hi THEN hi ELSE v

\* QSpinBox.setValue(v) for the int of sign and digits p; no box has a
\* minimum below 0, which bounds a negative int as it bounds 0
SpinInt(p, lo, hi) ==
    IF p.neg THEN Clamp(0, lo, hi)
    ELSE IF Len(p.d) > 9 THEN hi
    ELSE Clamp(Small(p.d), lo, hi)

\* QDoubleSpinBox.setValue(x) of a box of minimum 0.0 and maximum 100.0: the
\* float x rounded to the decimals of the box (den = 10^decimals), then
\* bound.  The box rounds the float, not the decimal text it came from: the
\* digits of the float are cut behind the decimals of the box, and the last
\* of them is raised when the digit that follows is 5 or more.
\* -inf is bound to the minimum; inf and nan, which compares greater than
\* the maximum, to the maximum.
SpinDouble(f, den) ==
    LET r == Len(NatToText(den)) - 1
        \* the digits of x down to the one that follows the decimals
        p == IF f.e < -67 THEN <<>>
             ELSE ShiftFar([i |-> f.m \o Zeros(r + 1), f |-> <<>>,
                            st |-> FALSE], f.e).i
        q == Small(SubSeq(p, 1, Len(p) - 1))
    IN  [num |-> IF f.kind = "nan" THEN 100 * den
                 ELSE IF f.kind = "inf"
                 THEN IF f.neg THEN 0 ELSE 100 * den
                 ELSE IF f.neg THEN 0
                 ELSE IF Len(TruncFloat(f)) >= 3 THEN 100 * den
                 ELSE IF p = <<>> THEN 0
                 ELSE IF p[Len(p)] >= 5 THEN q + 1
                 ELSE q,
         den |-> den]

\* the bits a byte & (1 << i) of set_checkboxes_from_byte looks at, for the
\* int of sign and digits p: p modulo 2^n, n the number of checkboxes
LowBits(p) ==
    LET n == Len(checkboxes)
        low == Small(SubSeq(p.d, IF Len(p.d) > n THEN Len(p.d) - n + 1 ELSE 1,
                            Len(p.d))) % (2 ^ n)
    IN  IF p.neg THEN (2 ^ n - low) % (2 ^ n) ELSE low

\* checkbox i is checked iff bit i of the byte is clear
set_checkboxes_inverted(byte) ==
    [i \in 1..Len(checkboxes) |-> (byte \div (2 ^ (i - 1))) % 2 = 0]

\* set_checkboxes_from_byte(byte): checkbox i is checked iff byte & (1 << i)
set_checkboxes_from_byte(byte) ==
    [i \in 1..Len(checkboxes) |-> (byte \div (2 ^ (i - 1))) % 2 = 1]

\* what update_ui_from_params does to the widget of one parameter, given
\* the text of its cell
SetField(w, name, text) ==
    CASE name = "Node ID" ->
            [w EXCEPT !.node_id = SpinInt(IntParts(text), 1, 127)]
      [] name = "ESC Index" ->
            [w EXCEPT !.esc_index = SpinInt(IntParts(text), 0, 32)]
      [] name = "Arming" ->
            [w EXCEPT !.arming = IntParts(text).d # <<>>]
      [] name = "Telemetry Rate" ->
            IF text \in TeleRates THEN [w EXCEPT !.tele_rate = text] ELSE w
      [] name = "CAN Speed" ->
            IF Len(IntParts(text).d) <= 9 /\ BaudKey(IntValue(text)) # ""
            THEN [w EXCEPT !.baudrate = BaudKey(IntValue(text))]
            ELSE w
      [] name = "Max Speed" ->
            [w EXCEPT !.max_speed = SpinDouble(ParseFloat(text), 100)]
      [] name = "Control Word" ->
            [w EXCEPT !.checkboxes =
                        set_checkboxes_from_byte(LowBits(IntParts(text)))]
      [] name = "Midle Point" ->
            [w EXCEPT !.midle_point = IntParts(text).d # <<>>]
      [] name = "Acceleration" ->
            [w EXCEPT !.acceleration = SpinDouble(ParseFloat(text), 100)]
      [] name = "Motor Poles" ->
            [w EXCEPT !.motor_poles = SpinInt(IntParts(text), 0, 32)]
      [] name = "KP" ->
            [w EXCEPT !.kp = SpinDouble(ParseFloat(text), 1000)]
      [] name = "KI" ->
            [w EXCEPT !.ki = SpinDouble(ParseFloat(text), 1000)]

\* update_ui_from_params: the widgets are set one after the other in
\* catalog order, each from the table column of its catalog index, until a
\* conversion raises
RECURSIVE ReflectFrom(_, _, _)
ReflectFrom(i, store, w) ==
    IF i > N THEN w
    ELSE IF ConvertRaises(store, param_index[i].name) THEN w
    ELSE ReflectFrom(i + 1, store,
                     SetField(w, param_index[i].name,
                              CellText(store, param_index[i].name)))

update_ui_from_params(store, w) == ReflectFrom(1, store, w)

\* handle_debug_log_message for a message of level INFO carrying text
handle_info(text) ==
    LET parts == Split(text)
        idx == CorrelatedIndex(current_index)
        raises == WellFormed(parts) /\ DecodeRaises(idx, ValueOf(parts))
        store == IF WellFormed(parts)
                 THEN Put(messages, KeyOf(parts), idx, Decode(idx, ValueOf(parts)))
                 ELSE messages
        unchecked == [widgets EXCEPT
                        !.checkboxes = set_checkboxes_from_byte(0)]
    IN  /\ lastOp' = "handle_info"
        /\ before' = Snapshot
        /\ stamp' = ~stamp
        /\ lastText' = text
        /\ displays' = NoDisplays
        /\ IF raises
           THEN /\ err' = DecodeError(ValueOf(parts))
                /\ widgets' = unchecked
                /\ UNCHANGED <<messages, fetch_label, signals>>
           ELSE /\ messages' = store
                /\ IF CompleteCheck(parts, store)
                   THEN /\ fetch_label' = LabelFetched
                        /\ signals' = signals + 1
                        /\ widgets' = update_ui_from_params(store, unchecked)
                        /\ err' = ReflectError(store)
                   ELSE /\ err' = "none"
                        /\ widgets' = unchecked
                        /\ UNCHANGED <<fetch_label, signals>>
        /\ UNCHANGED <<current_index, timer, timers, nodeid, node_select,
                       selected, pending, registry, sent, lastTicker, lastGet,
                       sessGets, sessTicks, sessSets, sessTarget, nFetch, nSet,
                       updated_message>>

\* the paragraph the log branch appends to the view of one marker: the
\* first match of this marker in the text, its code replaced by the name
Paragraph(text, marker) ==
    LET m == SearchFrom(text, 1, marker)
    IN  IF m.found
        THEN <<replace_enum_values(SubSeq(text, m.start, m.end))>>
        ELSE <<>>

\* handle_debug_log_message for a message of another level than INFO
handle_log(text) ==
    /\ lastOp' = "handle_log"
    /\ before' = Snapshot
    /\ stamp' = ~stamp
    /\ lastText' = text
    /\ err' = "none"
    /\ updated_message' = replace_enum_values(text)
    /\ displays' =
          [UserErrorCode_display |->
               displays.UserErrorCode_display
                   \o Paragraph(text, UserErrorCodeMarker),
           CtrlState_display |->
               displays.CtrlState_display \o Paragraph(text, CtrlStateMarker),
           EstState_display |->
               displays.EstState_display \o Paragraph(text, EstStateMarker)]
    /\ UNCHANGED <<panelVars, registry, sent, lastTicker, sessVars, nFetch,
                   nSet, widgets>>

\* DEBUG = 0, INFO = 1: the levels the module names
DEBUG == 0
INFO == 1

\* if message.level.value != INFO: ... / if message.level.value == INFO: ...
AnyLevel(level) == TRUE
IsInfo(level) == level = INFO

\* handle_debug_log_message, the handler of every LogMessage broadcast
handle_debug_log_message(level, text) ==
    /\ lastLevel' = level
    /\ IF IsInfo(level) THEN handle_info(text) ELSE handle_log(text)

\* ------------------------------------------------------------ the inputs
\* the name a device gives parameter i, and "<name> <value-text>"
Key(i) == <<"p">> \o NatToText(i)
Msg(k, v) == k \o <<" ">> \o v

\* value texts float() accepts: the spec's examples, negatives, a leading and
\* a trailing point, white space around, an exponent, "_" between digits, a
\* no-break space before an Arabic-Indic seven, seventeen nines behind the
\* point, and 10^23
NumberTexts ==
    { <<"7">>, <<"7", ".", "0">>, <<"6", ".", "9">>,
      <<"0", ".", "0", "5", "9">>, <<"-", "6", ".", "9">>,
      <<"-", "0", ".", "5">>, <<".", "5">>, <<"1", "2", ".">>,
      <<" ", "1", "0", "7", " ">>, <<"\t", "7", ".", "9", "\n", "">>,
      <<"1", "e", "3">>, <<"-", "6", "9", "E", "-", "1">>,
      <<"1", "_", "0", ".", "9">>, <<"U+00A0", "U+0667">>,
      <<"6", ".", "9", "9", "9", "9", "9", "9", "9", "9", "9", "9", "9", "9",
        "9", "9", "9", "9", "9">>,
      <<"1", "e", "2", "3">> }

\* value texts str(int(float(value))) raises for: no number, and the
\* numbers int() rejects, 10^400 among them, which float() gives as inf
NoNumberTexts ==
    { <<"a", "b">>, <<"7", " ", "8">>, <<>>, <<".">>, <<"1", "e">>,
      <<"1", "_">>, <<"", "7">>, <<"i", "n", "f">>, <<"-", "I", "n", "f", "i", "n", "i", "t", "y">>,
      <<"n", "a", "n">>, <<"1", "e", "4", "0", "0">> }

\* texts with fewer than two space-delimited tokens
MalformedTexts == { <<>>, <<"o", "n", "l", "y">> }

Tick ==
    /\ \E t \in timers : send_next_request(t)
    /\ UNCHANGED <<nStray, nExtra>>
SetParameter == \E name \in ParamNames : on_set(name)
SelectNode == \E i \in 1..Len(node_select) : select_node(i)

\* --------------------------------------------------------- SpecSession
\* the messages of SpecSession: one response and one malformed text
SessionTexts ==
    { Msg(Key(0), <<"6", ".", "7", "5">>), <<"o", "n", "l", "y">> }

\* the "Set" buttons of SpecSession: the first parameter, the first real
\* one and the last one
SessionSets == {"Node ID", "Max Speed", "KI"}

SetSession == \E name \in SessionSets : on_set(name)

\* an informational message arrives while a session runs or the panel idles
ReceiveSession ==
    /\ nMsg < MaxSessionMsgs
    /\ nMsg' = nMsg + 1
    /\ \E text \in SessionTexts : handle_debug_log_message(INFO, text)
    /\ UNCHANGED <<nStray, nExtra>>

\* the fetch session under ticks, set actions, restarts and messages
NextSession ==
    \/ update_nodes
    \/ send_param_requests
    \/ Tick
    \/ SetSession
    \/ ReceiveSession

SpecSession == Init /\ [][NextSession]_vars

\* the timer of a running session keeps firing
SpecSessionFair == SpecSession /\ WF_vars(Tick)

\* ----------------------------------------------------------- SpecStore
\* the messages of SpecStore: two names, two numbers, a value of two tokens
\* that is no number, and the malformed texts
StoreTexts ==
    { Msg(Key(0), <<"6", ".", "9">>), Msg(Key(0), <<"7">>),
      Msg(Key(1), <<"6", ".", "9">>), Msg(Key(1), <<"7", " ", "8">>) }
    \cup MalformedTexts

ReceiveStore ==
    /\ nMsg < MaxMsgs
    /\ nMsg' = nMsg + 1
    /\ \E text \in StoreTexts : handle_debug_log_message(INFO, text)
    /\ UNCHANGED <<nStray, nExtra>>

\* the store under messages of every shape, with the cursor moved by
\* startFetch and set actions
NextStore ==
    \/ update_nodes
    \/ send_param_requests
    \/ SetSession
    \/ ReceiveStore

SpecStore == Init /\ [][NextStore]_vars

\* ---------------------------------------------------------- SpecDecode
\* the messages of SpecDecode: one name with every value text
DecodeTexts == {Msg(Key(0), v) : v \in NumberTexts \cup NoNumberTexts}

ReceiveDecode ==
    /\ nMsg < MaxDecodeMsgs
    /\ nMsg' = nMsg + 1
    /\ \E text \in DecodeTexts : handle_debug_log_message(INFO, text)
    /\ UNCHANGED <<nStray, nExtra>>

\* a message of any value text met at every cursor position of a fetch
NextDecode ==
    \/ update_nodes
    \/ send_param_requests
    \/ Tick
    \/ ReceiveDecode

SpecDecode == Init /\ [][NextDecode]_vars

\* ----------------------------------------------------------- SpecFetch
\* the device answers the get request for index i with "<name i> <value>",
\* a number text of the parameter's kind
ResponseText(i) ==
    Msg(Key(i), IF i \in integer_params_index
                THEN <<"7", ".", "0">>
                ELSE <<"0", ".", "0", "5", "9">>)

\* the response to the latest get request is still outstanding
Unanswered == lastGet >= 0 /\ Key(lastGet) \notin Keys(messages)

\* the response to the latest get request arrives before the next tick
ReceiveResponse ==
    /\ Unanswered
    /\ current_index - 1 = lastGet
    /\ handle_debug_log_message(INFO, ResponseText(lastGet))
    /\ UNCHANGED <<nMsg, nStray, nExtra>>

\* a tick; a response still outstanding then is lost
TickFetch ==
    /\ Unanswered /\ current_index - 1 = lastGet => nStray < MaxStray
    /\ \E t \in timers : send_next_request(t)
    /\ UNCHANGED nExtra
    /\ nStray' = IF Unanswered /\ current_index - 1 = lastGet
                 THEN nStray + 1 ELSE nStray

\* messages after fetch-complete: malformed ones, a stored name again, and
\* a name the store does not hold
ExtraTexts ==
    MalformedTexts \cup {Msg(Key(0), <<"7">>), Msg(Key(N), <<"7">>)}

ReceiveExtra ==
    /\ signals >= 1
    /\ nExtra < MaxExtra
    /\ nExtra' = nExtra + 1
    /\ \E text \in ExtraTexts : handle_debug_log_message(INFO, text)
    /\ UNCHANGED <<nMsg, nStray>>

\* a fetch whose responses arrive in their windows or never, and what
\* arrives after it completed
NextFetch ==
    \/ update_nodes
    \/ send_param_requests
    \/ TickFetch
    \/ ReceiveResponse
    \/ ReceiveExtra

SpecFetch == Init /\ [][NextFetch]_vars

\* ----------------------------------------------------------- SpecLossy
\* a tick; the response still outstanding then is lost, and any number of
\* responses may be
TickLossy ==
    /\ \E t \in timers : send_next_request(t)
    /\ UNCHANGED <<nStray, nExtra>>

\* a fetch of which every response arrives in its window or never
NextLossy ==
    \/ update_nodes
    \/ send_param_requests
    \/ TickLossy
    \/ ReceiveResponse

SpecLossy == Init /\ [][NextLossy]_vars

\* the timer of a running session keeps firing
SpecLossyFair == SpecLossy /\ WF_vars(TickLossy)

\* ------------------------------------------------------------ SpecLate
\* the window of the response to request i is over: a later request was
\* emitted or the cursor was taken back to 0
WindowOver(i) == i <= lastGet /\ (i < lastGet \/ current_index - 1 # lastGet)

\* the response to an earlier request arrives after its window, while the
\* ticker still runs or after it stopped
ReceiveLate ==
    /\ nMsg < MaxLate
    /\ nMsg' = nMsg + 1
    /\ \E i \in 0..(N - 1) :
          /\ WindowOver(i)
          /\ Key(i) \notin Keys(messages)
          /\ handle_debug_log_message(INFO, ResponseText(i))
    /\ UNCHANGED <<nStray, nExtra>>

\* a fetch of which some responses miss their window and arrive late
NextLate ==
    \/ update_nodes
    \/ send_param_requests
    \/ TickFetch
    \/ ReceiveResponse
    \/ ReceiveLate

SpecLate == Init /\ [][NextLate]_vars

\* ------------------------------------------------------------ SpecBaud
\* the CAN bitrate codes a device reports: the eight of the table, and one
\* below and one above them
BaudValues == 4..13

\* the device answers the get request for the CAN Speed index with code c
BaudResponse(i, c) ==
    IF i = IndexOf("CAN Speed")
    THEN Msg(Key(i), NatToText(c) \o <<".", "0">>)
    ELSE ResponseText(i)

\* the response to the latest get request arrives before the next tick
ReceiveBaud ==
    /\ Unanswered
    /\ current_index - 1 = lastGet
    /\ IF lastGet = IndexOf("CAN Speed")
       THEN \E c \in BaudValues :
               handle_debug_log_message(INFO, BaudResponse(lastGet, c))
       ELSE handle_debug_log_message(INFO, ResponseText(lastGet))
    /\ UNCHANGED <<nMsg, nStray, nExtra>>

\* a tick once the response to the latest get request has arrived
TickBaud ==
    /\ ~(Unanswered /\ current_index - 1 = lastGet)
    /\ \E t \in timers : send_next_request(t)
    /\ UNCHANGED <<nStray, nExtra>>

\* the operator chooses a bitrate and presses its "Set" while no session runs
SelectBaud == timers = {} /\ \E label \in BaudLabels : select_baudrate(label)
SetBaud == timers = {} /\ on_set("CAN Speed")
RunSendValue == send_value

\* "Fetch All" pressed while no session runs and no write is scheduled
StartBaud == timers = {} /\ pending = <<>> /\ send_param_requests

\* the CAN bitrate chosen, written and fetched back
NextBaud ==
    \/ update_nodes
    \/ SelectBaud
    \/ SetBaud
    \/ RunSendValue
    \/ StartBaud
    \/ TickBaud
    \/ ReceiveBaud

SpecBaud == Init /\ [][NextBaud]_vars

\* ------------------------------------------------------------- SpecSet
\* the twelve "Set" buttons pressed with any node and any bitrate selected,
\* and the writes they schedule
NextSet ==
    \/ update_nodes
    \/ SelectNode
    \/ SelectBaud
    \/ SetParameter
    \/ RunSendValue

SpecSet == Init /\ [][NextSet]_vars

\* --------------------------------------------------------- SpecReflect
\* the device answers the get request for index i with a value of its own:
\* i + 1 for an Integer-kind parameter, i + 0.675 for a Real-kind one
OwnValue(i) ==
    IF i \in integer_params_index
    THEN NatToText(i + 1) \o <<".", "0">>
    ELSE NatToText(i) \o <<".", "6", "7", "5">>
OwnResponse(i) == Msg(Key(i), OwnValue(i))

\* the response to the latest get request arrives before the next tick
ReceiveOwn ==
    /\ Unanswered
    /\ current_index - 1 = lastGet
    /\ handle_debug_log_message(INFO, OwnResponse(lastGet))
    /\ UNCHANGED <<nMsg, nStray, nExtra>>

\* "Fetch All" pressed while no session runs
StartReflect == timers = {} /\ send_param_requests

\* a "Set" button pressed after the session sent its requests and stopped
SetReflect == timers = {} /\ sessGets = N /\ SetParameter

\* the response to an earlier request arrives after the ticker stopped
ReceiveLateOwn ==
    /\ timers = {}
    /\ nMsg < MaxLate
    /\ nMsg' = nMsg + 1
    /\ \E i \in 0..(N - 1) :
          /\ WindowOver(i)
          /\ Key(i) \notin Keys(messages)
          /\ handle_debug_log_message(INFO, OwnResponse(i))
    /\ UNCHANGED <<nStray, nExtra>>

\* a fetch of which a response misses its window and arrives after a "Set"
NextReflect ==
    \/ update_nodes
    \/ StartReflect
    \/ TickFetch
    \/ ReceiveOwn
    \/ SetReflect
    \/ ReceiveLateOwn

SpecReflect == Init /\ [][NextReflect]_vars

\* ----------------------------------------------------------- SpecNodes
\* node 2 appears, sends its name and goes; node 10 appears and goes
\* without ever sending one
RegistryChange ==
    \/ \E st \in {"absent", "anon", "named"} : registry_change(2, st)
    \/ \E st \in {"absent", "anon"} :
          registry[10] # "named" /\ registry_change(10, st)

\* the node refresh while the registry changes, nodes are selected and a
\* session runs and is answered
NextNodes ==
    \/ update_nodes
    \/ RegistryChange
    \/ SelectNode
    \/ send_param_requests
    \/ TickBaud
    \/ ReceiveResponse

SpecNodes == Init /\ [][NextNodes]_vars

\* ---------------------------------------------------------- SpecTarget
\* a session while the operator selects other nodes and presses "Set"
\* buttons, whose writes are sent
NextTarget ==
    \/ update_nodes
    \/ send_param_requests
    \/ Tick
    \/ SelectNode
    \/ SetSession
    \/ RunSendValue

SpecTarget == Init /\ [][NextTarget]_vars

\* ------------------------------------------------------------ SpecEnum
\* a marker, the white space after it, and the digits of a code
Occurrence(marker, gap, digits) == marker \o gap \o digits

\* for every marker a state's code, the code of the count member and the
\* first code beyond it; for one marker also no white space, a tab, a newline,
\* a separator 0x1c and a space, a code with a leading zero, 99, and a
\* no-break space before an Arabic-Indic two
OccurrenceTexts ==
    UNION { { Occurrence(Markers[k], <<" ">>, NatToText(2)),
              Occurrence(Markers[k], <<" ">>,
                         NatToText(Len(EnumOf(Markers[k])) - 1)),
              Occurrence(Markers[k], <<" ">>,
                         NatToText(Len(EnumOf(Markers[k])))) } :
            k \in 1..Len(Markers) }
    \cup { Occurrence(CtrlStateMarker, <<>>, NatToText(2)),
           Occurrence(EstStateMarker, <<"\t", "\n", "", " ">>, NatToText(2)),
           Occurrence(CtrlStateMarker, <<" ">>, <<"0", "3">>),
           Occurrence(CtrlStateMarker, <<" ">>, NatToText(99)),
           Occurrence(CtrlStateMarker, <<"U+00A0">>, <<"U+0662">>) }

\* the pieces a log text is put together from: the occurrences, a marker
\* without a code, a letter, a digit, a space, nothing
Pieces ==
    OccurrenceTexts \cup {CtrlStateMarker, <<"x">>, <<"7">>, <<" ">>, <<>>}

\* the log texts: two pieces one after the other
EnumTexts == {a \o b : a \in Pieces, b \in Pieces}

ReceiveEnum ==
    /\ nMsg < MaxEnumMsgs
    /\ nMsg' = nMsg + 1
    /\ \E text \in EnumTexts : handle_debug_log_message(DEBUG, text)
    /\ UNCHANGED <<nStray, nExtra>>

\* the decoder applied to log texts of every shape
NextEnum == ReceiveEnum

SpecEnum == Init /\ [][NextEnum]_vars

\* ------------------------------------------------------------- SpecLog
\* level.value of the levels a LogMessage has beside INFO: DEBUG, WARNING
\* and ERROR
OtherLevels == {DEBUG, 2, 3}

\* the messages of SpecLog: a text of the form "<name> <value>", a malformed
\* one, and one with two markers
LogTexts ==
    { Msg(Key(0), <<"6", ".", "9">>), <<"o", "n", "l", "y">>,
      Occurrence(CtrlStateMarker, <<" ">>, NatToText(2))
          \o <<" ">> \o Occurrence(EstStateMarker, <<>>, NatToText(7)) }

\* a message of any level arrives
ReceiveLog ==
    /\ nMsg < MaxLogMsgs
    /\ nMsg' = nMsg + 1
    /\ \E level \in OtherLevels \cup {INFO} :
          \E text \in LogTexts : handle_debug_log_message(level, text)
    /\ UNCHANGED <<nStray, nExtra>>

\* log messages and informational messages while a session runs or the
\* panel idles
NextLog ==
    \/ update_nodes
    \/ send_param_requests
    \/ Tick
    \/ ReceiveLog

SpecLog == Init /\ [][NextLog]_vars

\* ------------------------------------------------------------ SpecView
\* the operator clicks a checkbox while no session runs and at most one
\* checkbox is checked
ToggleBox ==
    /\ timers = {}
    /\ Snapshot.checked <= 1
    /\ \E i \in 1..Len(checkboxes) : toggle_checkbox(i)

\* a message of any level arrives while no session runs
ReceiveView ==
    /\ timers = {}
    /\ nMsg < MaxLogMsgs
    /\ nMsg' = nMsg + 1
    /\ \E level \in OtherLevels \cup {INFO} :
          \E text \in LogTexts : handle_debug_log_message(level, text)
    /\ UNCHANGED <<nStray, nExtra>>

\* checkboxes clicked and log views filled around answered fetches
NextView ==
    \/ update_nodes
    \/ StartReflect
    \/ TickBaud
    \/ ReceiveResponse
    \/ ToggleBox
    \/ ReceiveView

SpecView == Init /\ [][NextView]_vars

\* ------------------------------------------------------------ SpecWord
\* the control words a device reports: every byte
WordValues == 0..255

\* the device answers the get request for the Control Word index with b
WordResponse(i, b) ==
    IF i = IndexOf("Control Word")
    THEN Msg(Key(i), NatToText(b) \o <<".", "0">>)
    ELSE ResponseText(i)

\* the response to the latest get request arrives before the next tick
ReceiveWord ==
    /\ Unanswered
    /\ current_index - 1 = lastGet
    /\ \E b \in IF lastGet = IndexOf("Control Word") THEN WordValues ELSE {0} :
          handle_debug_log_message(INFO, WordResponse(lastGet, b))
    /\ UNCHANGED <<nMsg, nStray, nExtra>>

\* the operator clicks checkboxes before the first fetch and the first write
ToggleWord ==
    /\ nFetch = 0 /\ pending = <<>> /\ sent.op = "none"
    /\ \E i \in 1..Len(checkboxes) : toggle_checkbox(i)

\* the "Set" of the control word, pressed while no session runs
SetWord == timers = {} /\ on_set("Control Word")

\* the control word clicked together, written and fetched back
NextWord ==
    \/ update_nodes
    \/ ToggleWord
    \/ SetWord
    \/ RunSendValue
    \/ StartBaud
    \/ TickBaud
    \/ ReceiveWord

SpecWord == Init /\ [][NextWord]_vars

\* ------------------------------------------------- claims on SpecSession
\* the step is the handling of an informational message
MessageStep == stamp' # stamp /\ lastOp' = "handle_info"

\* a text has a space, so that split(" ") gives two tokens or more
HasSpace(text) == \E i \in 1..Len(text) : text[i] = " "
FirstToken(text) ==
    SubSeq(text, 1, (CHOOSE i \in 1..Len(text) :
                        text[i] = " " /\ \A j \in 1..(i - 1) : text[j] # " ") - 1)

\* C2: within one fetch session the indices of the get requests the ticks
\* emit are strictly ascending (none repeated), whatever ticks, messages and
\* set actions interleave
C2_GetsAscend ==
    [][sessGets' = sessGets + 1 => lastGet' > lastGet]_vars

\* C3: right after any startFetch the store is empty and the cursor is 0
C3_StartFetchResets ==
    lastOp = "send_param_requests" => (messages = <<>> /\ current_index = 0)

\* C4: at most one ticker is ever active, it is the one self.timer holds,
\* no other ticker's timeout runs, and a tick moves the cursor up by at
\* most one
C4_OneTicker ==
    /\ [](Cardinality(timers) <= 1 /\ timers \subseteq {timer})
    /\ [](lastOp = "send_next_request" => lastTicker = timer)
    /\ [][sessTicks' = sessTicks + 1
            => current_index' <= current_index + 1]_vars

\* the second session ticked after it superseded a running first one
C4_Witness ==
    /\ timer = 2 /\ timers = {2} /\ lastOp = "send_next_request"
    /\ sessTicks = 2 /\ current_index = 2

\* C5: under fair ticks a running ticker eventually stops; with no set
\* action in the session it stops on tick N+1 after the N get requests
\* 0..N-1, each once and in order, and a get request is only emitted while
\* the ticker runs
C5_SessionEnds ==
    /\ [](timers # {} => <>(timers = {}))
    /\ []((lastOp = "send_next_request" /\ timers = {} /\ sessSets = 0)
            => (sessTicks = N + 1 /\ sessGets = N /\ lastGet = N - 1))
    /\ [][(sessGets' = sessGets + 1 /\ sessSets = 0)
            => (lastGet' = lastGet + 1 /\ lastGet' = sessGets)]_vars
    /\ [][sessGets' = sessGets + 1 => timers # {}]_vars

\* a session that saw no set action stopped
C5_Witness ==
    /\ lastOp = "send_next_request" /\ timers = {} /\ sessSets = 0
    /\ sessGets = N

\* C10: an informational message received while the panel is Idle (no
\* ticker running) leaves the store as it was
C10_IdleMessagesIgnored ==
    [][(MessageStep /\ timers = {}) => messages' = messages]_vars

\* --------------------------------------------------- claims on SpecFetch
\* C1: in a fetch without set action in which every response so far arrived
\* before the next tick, once the response to the last request is handled
\* the store holds exactly N entries, the i-th of them, named by the i-th
\* response, carries index i, and fetch-complete is signalled
C1_InOrderFetch ==
    (lastOp = "handle_info" /\ lastText = ResponseText(N - 1) /\ nStray = 0)
        => /\ Len(messages) = N
           /\ \A i \in 0..(N - 1) :
                 /\ messages[i + 1].key = Key(i)
                 /\ messages[i + 1].index = i
           /\ fetch_label = LabelFetched
           /\ signals = 1

\* the twelfth response of a fetch that lost none was handled
C1_Witness ==
    /\ lastOp = "handle_info" /\ lastText = ResponseText(N - 1)
    /\ nStray = 0 /\ sessGets = N /\ before.len = N - 1 /\ before.running

\* C6: fetch-complete is signalled at most once per fetch session
C6_SignalledOnce == signals <= 1

\* ---------------------------------------------------- claims on SpecStore
\* the text behind the first space
AfterFirstSpace(text) ==
    SubSeq(text, Len(FirstToken(text)) + 2, Len(text))

\* C7: a message with fewer than two space-delimited tokens leaves the store
\* as it was and its correlation raises nothing
C7_MalformedDropped ==
    [][(MessageStep /\ ~HasSpace(lastText'))
            => (messages' = messages /\ err' = "none")]_vars

\* a malformed message met a store with an entry and a cursor behind an
\* Integer-kind index
C7_Witness ==
    /\ lastOp = "handle_info" /\ ~HasSpace(lastText)
    /\ before.len > 0 /\ current_index = 1

\* what C9 says of a step: name k is stored under cursor - 1, every other
\* entry is as before, and the size grew by one exactly if k was absent
StoredPositionally(text, c, old, new) ==
    LET k == FirstToken(text)
    IN  /\ \E i \in 1..Len(new) : new[i].key = k /\ new[i].index = c - 1
        /\ \A j \in 1..Len(old) : old[j].key # k => new[j] = old[j]
        /\ \A i, j \in 1..Len(new) : new[i].key = new[j].key => i = j
        /\ Len(new) = Len(old) + (IF \E j \in 1..Len(old) : old[j].key = k
                                  THEN 0 ELSE 1)

\* C9: every message with two tokens or more, first token k, received at
\* cursor c, is stored as k -> (c - 1, decoded value), replaces an earlier
\* entry of k, leaves every other entry alone and grows the store by one
\* exactly if k was absent
C9_EveryWellFormedStored ==
    [][(MessageStep /\ HasSpace(lastText'))
            => StoredPositionally(lastText', current_index, messages,
                                  messages')]_vars

\* --------------------------------------------------- claims on SpecDecode
\* the digits of the integer part of the decimal number a number text
\* writes
DecimalWhole(raw) ==
    LET d == SplitExponent(WithoutUnderscores(Unsigned(ToAscii(Strip(raw)))))
        dots == DotPositions(d.mant)
        frac == IF dots = {} THEN 0
                ELSE Len(d.mant) - (CHOOSE i \in dots : TRUE)
        m == [i \in 1..Len(WithoutDot(d.mant)) |->
                 DigitVal(WithoutDot(d.mant)[i])]
        x == Small([i \in 1..Len(Unsigned(d.exp)) |->
                       DigitVal(Unsigned(d.exp)[i])])
        t == IF IsNegative(d.exp) THEN 0 - x - frac ELSE x - frac
    IN  IF t >= 0 THEN Norm(m \o Zeros(t))
        ELSE Norm(SubSeq(m, 1, Len(m) + t))

\* text t is str(n) for the integer n that raw, a number text, has when its
\* fraction is cut off: |n| <= |raw| < |n| + 1, with the sign of raw unless
\* n is 0
TruncatesTo(t, raw) ==
    t = BigToText(IsNegative(Strip(raw)), DecimalWhole(raw))

\* C8: a stored value is the decimal text of the number truncated toward
\* zero when cursor - 1 is an Integer-kind index ("7" -> "7", "7.0" -> "7",
\* "6.9" -> "6") and the raw value text otherwise ("0.059" stays)
C8_DecodingRule ==
    [][(MessageStep /\ HasSpace(lastText') /\ err' = "none")
            => LET raw == AfterFirstSpace(lastText')
                   got == Entry(messages', FirstToken(lastText')).value
               IN  IF (current_index - 1) \in integer_params_index
                   THEN /\ TruncatesTo(got, raw)
                        /\ raw = <<"7">> => got = <<"7">>
                        /\ raw = <<"7", ".", "0">> => got = <<"7">>
                        /\ raw = <<"6", ".", "9">> => got = <<"6">>
                   ELSE got = raw]_vars

\* --------------------------------------------------- claims on SpecLossy
\* the response to a request of the running session missed its window and
\* is not in the store
ResponseLost ==
    \E i \in 0..(N - 1) : WindowOver(i) /\ Key(i) \notin Keys(messages)

\* C11: while a response of the session is missing the store is smaller
\* than N and fetch-complete is not signalled, the ticker nevertheless
\* stops, and it stops only after all N requests were sent; fetch-complete
\* is signalled only in a state whose store holds N entries
C11_LostNeverCompletes ==
    /\ [](ResponseLost
            => (Len(messages) < N /\ signals = 0
                /\ fetch_label = LabelFetching))
    /\ [][signals' = signals + 1 => Len(messages') = N]_vars
    /\ []((ResponseLost /\ timers # {}) => <>(timers = {}))
    /\ []((lastOp = "send_next_request" /\ timers = {}) => sessGets = N)

\* the ticker stopped after its N requests with one response missing
C11_Witness ==
    /\ ResponseLost /\ timers = {} /\ lastOp = "send_next_request"
    /\ sessGets = N /\ Len(messages) = N - 1 /\ signals = 0
\* ---------------------------------------------------- claims on SpecEnum
\* positions d..e of s are digits, the longest run of them from d on
DigitRun(s, d, e) ==
    /\ d <= e /\ e <= Len(s)
    /\ \A j \in d..e : s[j] \in DecimalDigits
    /\ (e = Len(s) \/ s[e + 1] \notin DecimalDigits)

\* positions i..e of s are marker k, white space or none, and digits
IsOccurrence(s, i, e, k) ==
    /\ HasPrefixAt(s, i, Markers[k])
    /\ e <= Len(s) /\ s[e] \in DecimalDigits
    /\ (e = Len(s) \/ s[e + 1] \notin DecimalDigits)
    /\ \E d \in (i + Len(Markers[k]))..e :
          /\ \A j \in (i + Len(Markers[k]))..(d - 1) : s[j] \in WhiteSpace
          /\ DigitRun(s, d, e)

\* the number the digits of the occurrence at i..e denote; 1000000 stands
\* for a number of more than six digits, which is beyond every table
CodeOf(s, i, e, k) ==
    LET d == CHOOSE x \in (i + Len(Markers[k]))..e :
                 DigitRun(s, x, e)
                 /\ (x = i + Len(Markers[k]) \/ s[x - 1] \notin DecimalDigits)
        n == Norm([j \in 1..(e - d + 1) |-> DecimalVal(s[d + j - 1])])
    IN  IF Len(n) > 6 THEN 1000000 ELSE Small(n)

\* the states or error codes of a table: its members without the count
\* member at its end (0..3 for CtrlState)
IsState(enum, number) == number + 1 < Len(enum)

\* positions i..e are an occurrence of marker k whose code the table of the
\* marker defines
DefinedOccurrence(s, i, e, k) ==
    /\ IsOccurrence(s, i, e, k)
    /\ IsState(EnumOf(Markers[k]), CodeOf(s, i, e, k))

\* such an occurrence starts at position b and ends at position lo or later
DefinedFrom(s, b, lo) ==
    \E k \in 1..Len(Markers) :
        /\ s[b] = Markers[k][1]
        /\ HasPrefixAt(s, b, Markers[k])
        /\ \E e \in lo..Len(s) : DefinedOccurrence(s, b, e, k)

\* what the output holds for position i of the input: marker, space and name
\* where a defined occurrence starts, nothing further inside it, and the
\* character itself anywhere else
OutputFor(s, i) ==
    IF DefinedFrom(s, i, i)
    THEN LET k == CHOOSE x \in 1..Len(Markers) : HasPrefixAt(s, i, Markers[x])
             e == CHOOSE x \in i..Len(s) : DefinedOccurrence(s, i, x, k)
         IN  Markers[k] \o <<" ">>
                \o <<EnumOf(Markers[k])[CodeOf(s, i, e, k) + 1]>>
    ELSE IF \E b \in 1..(i - 1) : DefinedFrom(s, b, i)
    THEN <<>>
    ELSE <<s[i]>>

RECURSIVE OutputUpTo(_, _)
OutputUpTo(s, n) ==
    IF n = 0 THEN <<>> ELSE OutputUpTo(s, n - 1) \o OutputFor(s, n)

\* C12: replace_enum_values replaces every marker followed by optional white
\* space and digits that are a code of the marker's table by the marker, a
\* space and the name of the code, each occurrence by itself and in the
\* order of the input, and leaves every other character as it is
C12_EveryOccurrenceReplaced ==
    lastOp = "handle_log"
        => updated_message = OutputUpTo(lastText, Len(lastText))

\* C13: an occurrence whose code is no state or error code of its marker's
\* table is in the output exactly as in the input, and nothing is raised
C13_RangeMissKept ==
    (lastOp = "handle_log" /\ err = "none")
        => \A k \in 1..Len(Markers) :
              (/\ IsOccurrence(lastText, 1, Len(lastText), k)
               /\ ~IsState(EnumOf(Markers[k]),
                           CodeOf(lastText, 1, Len(lastText), k)))
                  => updated_message = lastText

\* ----------------------------------------------------- claims on SpecLog
\* the step is the handling of a message of another level than INFO
LogStep ==
    /\ stamp' # stamp
    /\ lastOp' \in {"handle_info", "handle_log"}
    /\ lastLevel' # INFO

\* sequence a is the beginning of sequence b
IsPrefix(a, b) == Len(a) <= Len(b) /\ SubSeq(b, 1, Len(a)) = a

\* C14: a message of another level than INFO, whatever its text, leaves the
\* store, the cursor, the target node, the ticker, the completion signal and
\* the widgets as they are; it only appends paragraphs to the log views
C14_LogTextOnly ==
    [][LogStep
        => /\ UNCHANGED <<messages, current_index, nodeid, timer, timers,
                          signals, fetch_label, pending, sent, widgets,
                          node_select, selected>>
           /\ IsPrefix(displays.CtrlState_display,
                       displays'.CtrlState_display)
           /\ IsPrefix(displays.EstState_display,
                       displays'.EstState_display)
           /\ IsPrefix(displays.UserErrorCode_display,
                       displays'.UserErrorCode_display)]_vars

\* a warning of the form "<name> <value>" met a running session whose store
\* held an entry
C14_Witness ==
    /\ lastOp = "handle_log" /\ lastLevel = 2
    /\ lastText = Msg(Key(0), <<"6", ".", "9">>)
    /\ timers # {} /\ current_index = 3
    /\ Len(messages) = 1 /\ messages[1].index = 1

\* ---------------------------------------------------- claims on SpecBaud
\* the step is the "Set" button of the CAN bitrate
BaudSetStep ==
    /\ stamp' # stamp
    /\ lastOp' = "on_set"
    /\ current_index' = IndexOf("CAN Speed") + 1

\* the step is the send_value a "Set" of the CAN bitrate scheduled, run with
\* a node selected
BaudWriteStep ==
    /\ stamp' # stamp
    /\ lastOp' = "send_value"
    /\ err' = "none"
    /\ Head(pending).index = IndexOf("CAN Speed")

\* the step signals fetch-complete for a store whose CAN Speed column holds
\* the value correlated to the CAN Speed index
BaudReflectStep ==
    /\ stamp' # stamp
    /\ lastOp' = "handle_info"
    /\ signals' = signals + 1
    /\ err' = "none"
    /\ messages'[IndexOf("CAN Speed") + 1].index = IndexOf("CAN Speed")

\* C15: a "Set" with label L selected schedules, and send_value then
\* submits, a write of the integer code of L at the CAN Speed index;
\* reflecting a stored CAN Speed code of the table selects the label of
\* that code, and a value that is no code of the table leaves the
\* selection as it is
C15_BaudRoundTrip ==
    [][/\ BaudSetStep =>
            \E i \in 1..Len(bmap) :
                /\ bmap[i].label = widgets.baudrate
                /\ pending' = Append(pending,
                                     [index |-> IndexOf("CAN Speed"),
                                      real |-> FALSE,
                                      value |-> bmap[i].code])
       /\ BaudWriteStep =>
            /\ sent'.op = "set"
            /\ sent'.index = IndexOf("CAN Speed")
            /\ sent'.real = Head(pending).real
            /\ sent'.value = Head(pending).value
       /\ BaudReflectStep =>
            LET c == IntValue(messages'[IndexOf("CAN Speed") + 1].value)
            IN  /\ \A i \in 1..Len(bmap) :
                       bmap[i].code = c => widgets'.baudrate = bmap[i].label
                /\ (\A i \in 1..Len(bmap) : bmap[i].code # c)
                       => widgets'.baudrate = widgets.baudrate]_vars

\* a fetch reflected code 12 into the bitrate box, whose "Set" then wrote 12
C15_Witness ==
    /\ lastOp = "send_value" /\ err = "none"
    /\ sent.op = "set" /\ sent.index = IndexOf("CAN Speed")
    /\ sent.value = 12 /\ ~sent.real
    /\ widgets.baudrate = "1MHz->12"
    /\ fetch_label = LabelFetched /\ signals = 1
    /\ Len(messages) = N
    /\ messages[IndexOf("CAN Speed") + 1].value = <<"1", "2">>

\* ----------------------------------------------------- claims on SpecSet
\* the step is the press of a "Set" button
SetStep == stamp' # stamp /\ lastOp' = "on_set"

\* the step is a scheduled send_value
WriteStep == stamp' # stamp /\ lastOp' = "send_value"

\* the value kind the catalog gives an index is Real
RealKind(index) == param_index[index + 1].kind = "float"

\* C16: the press of a parameter's "Set" schedules one write, and the write
\* scheduled first is submitted once as one request
\* that carries the catalog index of the parameter and the value read, as
\* a real scalar iff that value is a float, which it is iff the catalog
\* kind of the parameter is Real; no other step submits or schedules a
\* write
C16_OneTypedWrite ==
    [][/\ SetStep =>
            /\ Len(pending') = Len(pending) + 1
            /\ SubSeq(pending', 1, Len(pending)) = pending
            /\ \E name \in ParamNames :
                  /\ current_index' = IndexOf(name) + 1
                  /\ pending'[Len(pending')].index = IndexOf(name)
                  /\ pending'[Len(pending')].real = RealKind(IndexOf(name))
            /\ sent' = sent
       /\ WriteStep =>
            /\ pending' = Tail(pending)
            /\ sent'.op = "set"
            /\ sent'.index = Head(pending).index
            /\ sent'.value = Head(pending).value
            /\ sent'.real = Head(pending).real
            /\ sent'.real = RealKind(sent'.index)
            /\ sent'.dest = SelectedNode
       /\ (stamp' # stamp /\ lastOp' \notin {"on_set", "send_value"}) =>
            /\ pending' = pending
            /\ sent' # sent => sent'.op = "get"]_vars

\* ------------------------------------------------- claims on SpecReflect
\* the store holds one entry of stored index i for every catalog index i
OneEntryPerIndex(store) ==
    /\ Len(store) = N
    /\ \A i \in 0..(N - 1) : \E p \in 1..N : store[p].index = i

\* the entries of such a store in the order of their stored indices
ByStoredIndex(store) ==
    [i \in 1..N |-> store[CHOOSE p \in 1..N : store[p].index = i - 1]]

\* the step signals fetch-complete for such a store
ReflectStep ==
    /\ stamp' # stamp
    /\ lastOp' = "handle_info"
    /\ signals' = signals + 1
    /\ OneEntryPerIndex(messages')

\* C17: when fetch-complete is signalled the widget of every catalog entry
\* of index i shows the value of the store entry whose stored index is i,
\* in whatever order the entries were inserted
C17_ReflectsStoredIndex ==
    [][ReflectStep =>
          widgets' = update_ui_from_params(
                        ByStoredIndex(messages'),
                        [widgets EXCEPT
                            !.checkboxes = set_checkboxes_from_byte(0)])]_vars

\* --------------------------------------------------- claims on SpecNodes
\* the step is a node refresh that found something to add
RefreshStep == stamp' # stamp /\ lastOp' = "update_nodes"

\* no text is listed twice
NoDuplicates(items) ==
    \A i, j \in 1..Len(items) : items[i] = items[j] => i = j

\* C18: a node refresh leaves the store, the cursor, the target node, the
\* ticker and the requests as they are; it keeps every listed entry at its
\* position and appends only texts not yet listed, so the list never holds
\* a text twice, and no step of the panel ever shortens or reorders it
C18_RefreshAppendsOnly ==
    /\ [][RefreshStep =>
            /\ UNCHANGED <<messages, current_index, nodeid, timer, timers,
                           pending, sent, fetch_label, signals, widgets>>
            /\ IsPrefix(node_select, node_select')
            /\ \A i \in (Len(node_select) + 1)..Len(node_select') :
                  \A j \in 1..Len(node_select) :
                      node_select'[i] # node_select[j]]_vars
    /\ [][IsPrefix(node_select, node_select')]_vars
    /\ [](NoDuplicates(node_select))

\* a refresh during an answered session appended the text of a node that
\* had sent its name, behind its bare id and the id of a node since gone
C18_Witness ==
    /\ lastOp = "update_nodes"
    /\ timers # {} /\ Len(messages) = 1 /\ current_index = 1
    /\ registry[10] = "absent" /\ registry[2] = "named"
    /\ node_select = <<ItemText(10, FALSE), ItemText(2, FALSE),
                       ItemText(2, TRUE)>>

\* ---------------------------------------------------- claims on SpecLate
\* the step handles a well-formed informational message after the session
\* sent its N requests and its ticker stopped
LateStep ==
    /\ MessageStep
    /\ timers = {}
    /\ sessGets = N
    /\ HasSpace(lastText')

\* C19: a well-formed informational message that arrives after the N
\* requests were sent and the ticker stopped is inserted into the store
\* under its name, and fetch-complete is signalled in that step iff the
\* store then holds N entries
C19_LateStillCompletes ==
    [][LateStep =>
          /\ err' \in {"none", "ValueError in update_ui_from_params"}
          /\ FirstToken(lastText') \in Keys(messages')
          /\ Entry(messages', FirstToken(lastText')).index = current_index - 1
          /\ Entry(messages', FirstToken(lastText')).value
                 = AfterFirstSpace(lastText')
          /\ \A k \in Keys(messages) : k \in Keys(messages')
          /\ IF Len(messages') = N
             THEN signals' = signals + 1 /\ fetch_label' = LabelFetched
             ELSE signals' = signals /\ fetch_label' = fetch_label]_vars

\* the response that missed its window arrived after the ticker stopped as
\* the twelfth entry, and fetch-complete was signalled for the first time
C19_Witness ==
    /\ lastOp = "handle_info"
    /\ timers = {} /\ sessGets = N /\ current_index = 0
    /\ ~before.running /\ before.len = N - 1
    /\ Len(messages) = N /\ signals = 1 /\ fetch_label = LabelFetched
    /\ messages[N].index = -1

\* -------------------------------------------------- claims on SpecTarget
\* the step is a tick that emits a get request
GetStep ==
    /\ stamp' # stamp
    /\ lastOp' = "send_next_request"
    /\ sessGets' = sessGets + 1

\* C20: every get request of a session goes to the node that was selected
\* when the session's startFetch ran, whatever node the operator selects
\* and whatever "Set" buttons are pressed while the session requests
C20_GetsToSessionTarget ==
    [][GetStep => (sent'.op = "get" /\ sent'.dest = sessTarget)]_vars

\* --------------------------------------------- invariants of the store
\* C21: every entry of the store carries a catalog index, 0..N-1, whenever
\* it was inserted: before the first startFetch, between a startFetch and
\* its first tick, or after the ticker stopped
C21_StoredIndexInRange ==
    \A i \in 1..Len(messages) : messages[i].index \in 0..(N - 1)

\* ------------------------------------------------ invariant of the cursor
\* C22: after any sequence of startFetch, ticks, set actions and messages
\* the cursor is in 0..N, and a get request carries an index of 0..N-1
C22_CursorBound ==
    /\ current_index \in 0..N
    /\ sent.op = "get" => sent.index \in 0..(N - 1)

\* the ticks of a session without set actions took the cursor to N with the
\* get request for index N-1
C22_Witness ==
    /\ lastOp = "send_next_request" /\ sessSets = 0
    /\ current_index = N
    /\ sent.op = "get" /\ sent.index = N - 1
    /\ timers # {}

\* ----------------------------------------------- size bound of the store
\* C23: the store never holds more than N entries, whatever names the
\* informational messages carry
C23_StoreSizeBound == Len(messages) <= N

\* ------------------------------------- set actions and the shared cursor
\* the step handles a well-formed informational message right after the
\* press of a "Set" button, with no tick or other handler in between
MessageAfterSetStep ==
    /\ MessageStep
    /\ lastOp = "on_set"
    /\ HasSpace(lastText')

\* C24: the press of the "Set" of the parameter of catalog index i puts the
\* cursor at i + 1 in that very step, with a ticker running or without,
\* and leaves store, ticker and requests as they are; the informational
\* message handled next is stored with index i, its value cut to an
\* integer when i is Integer-kind and kept as text when i is Real-kind
C24_SetCouplesCursor ==
    [][/\ SetStep =>
            /\ \E name \in ParamNames :
                  /\ pending'[Len(pending')].index = IndexOf(name)
                  /\ current_index' = IndexOf(name) + 1
            /\ UNCHANGED <<messages, timer, timers, sent, nodeid>>
       /\ MessageAfterSetStep =>
            LET i == pending[Len(pending)].index
                raw == AfterFirstSpace(lastText')
                got == Entry(messages', FirstToken(lastText'))
            IN  /\ err' = "none"
                /\ got.index = i
                /\ IF RealKind(i) THEN got.value = raw
                   ELSE TruncatesTo(got.value, raw)]_vars

\* the Node ID "Set" was pressed in a session that had sent three requests,
\* and the message that came next was stored with index 0 and value "6"
C24_Witness ==
    /\ lastOp = "handle_info" /\ err = "none"
    /\ timers # {} /\ sessGets = 3 /\ sessSets = 1
    /\ current_index = IndexOf("Node ID") + 1
    /\ lastText = Msg(Key(0), <<"6", ".", "7", "5">>)
    /\ Len(messages) = 1
    /\ messages[1].index = IndexOf("Node ID")
    /\ messages[1].value = <<"6">>

\* ---------------------------------------------------- claims on SpecView
\* no checkbox is checked
AllUnchecked == [i \in 1..Len(checkboxes) |-> FALSE]

\* C25: every informational message, well-formed or not, leaves the three
\* log views empty; unless it signals fetch-complete it leaves all seven
\* checkboxes unchecked, whatever the operator had checked and whatever
\* log messages had been appended; when it signals, the checkboxes show
\* the stored control word and nothing of what was checked before
C25_InfoClearsViews ==
    [][MessageStep =>
          /\ displays' = NoDisplays
          /\ signals' = signals => widgets'.checkboxes = AllUnchecked
          /\ (signals' # signals /\ err' = "none") =>
                LET byte == IntValue(
                                messages'[IndexOf("Control Word") + 1].value)
                IN  \A i \in 1..Len(checkboxes) :
                        widgets'.checkboxes[i]
                            = ((byte \div (2 ^ (i - 1))) % 2 = 1)]_vars

\* a malformed informational message found two checkboxes checked and a
\* paragraph in a log view, and left none
C25_Witness ==
    /\ lastOp = "handle_info" /\ lastLevel = INFO
    /\ lastText = <<"o", "n", "l", "y">>
    /\ before.checked = 2 /\ before.logged >= 1
    /\ signals = 0
    /\ widgets.checkboxes = AllUnchecked
    /\ displays = NoDisplays

\* ---------------------------------------------------- claims on SpecWord
\* the weight of the k-th checkbox in declaration order: bit k - 1
Weight(boxes, k) == IF boxes[k] THEN 2 ^ (k - 1) ELSE 0

\* the byte whose bit k - 1 is the k-th of the seven checkboxes
WordOf(boxes) ==
    Weight(boxes, 1) + Weight(boxes, 2) + Weight(boxes, 3) + Weight(boxes, 4)
        + Weight(boxes, 5) + Weight(boxes, 6) + Weight(boxes, 7)

\* the step signals fetch-complete and its reflection raises nothing
WordReflectStep ==
    /\ MessageStep
    /\ signals' = signals + 1
    /\ err' = "none"

\* C26: the byte read from the seven checkboxes has bit k - 1 set iff the
\* k-th checkbox is checked, so it is in 0..127; setting the checkboxes
\* from the byte read from them restores every pattern; and the byte read
\* after the checkboxes were set from a byte b of 0..255 is b mod 128
C26_BitRoundTrip ==
    /\ [](/\ get_byte_from_checkboxes(widgets) = WordOf(widgets.checkboxes)
          /\ get_byte_from_checkboxes(widgets) \in 0..127
          /\ set_checkboxes_from_byte(get_byte_from_checkboxes(widgets))
                = widgets.checkboxes)
    /\ [][WordReflectStep =>
            LET b == IntValue(messages'[IndexOf("Control Word") + 1].value)
            IN  /\ widgets'.checkboxes = set_checkboxes_from_byte(b)
                /\ get_byte_from_checkboxes(widgets') = b % 128]_vars
    /\ [][(SetStep /\ current_index' = IndexOf("Control Word") + 1) =>
            pending'[Len(pending')].value = WordOf(widgets.checkboxes)]_vars

\* a fetch reflected the control word 200 into the checkboxes, whose "Set"
\* then wrote 72
C26_Witness ==
    /\ lastOp = "send_value" /\ err = "none"
    /\ sent.op = "set" /\ sent.index = IndexOf("Control Word")
    /\ sent.value = 72
    /\ signals = 1 /\ Len(messages) = N
    /\ messages[IndexOf("Control Word") + 1].value = <<"2", "0", "0">>
    /\ widgets.checkboxes
          = <<FALSE, FALSE, FALSE, TRUE, FALSE, FALSE, TRUE>>
====
